---------------------------- MODULE Spec2Model ----------------------------
(***************************************************************************)
(* A model of the scan reconciliation and drift-analysis scripts of        *)
(* vuln-demo:                                                              *)
(*   scripts/scan.py                 process_grype_results,                *)
(*                                   save_results_to_json                  *)
(*   scripts/compare.py              calculate_diff,                       *)
(*                                   generate_markdown_report              *)
(*   scripts/merge-scan-results.py   parse_*_results,                      *)
(*                                   merge_vulnerabilities                 *)
(*                                                                         *)
(* Python values are modelled as follows.  A dict is a function whose      *)
(* DOMAIN is the set of its keys (a record when the keys are fixed), a     *)
(* list is a sequence.  A string on which the code computes (upper, lower, *)
(* split) is a sequence of one-character strings, so that the conversion   *)
(* is computed and not assumed; a string that is only copied or compared   *)
(* is a TLA+ string.                                                       *)
(***************************************************************************)
EXTENDS Integers, Sequences, FiniteSets, TLC

VARIABLES
    \* scan.py
    images,         \* main: the image names parsed from docker-compose.yml
    results,        \* main: the list of ImageVulnerabilities built so far
    next_image,     \* main: the index in images of the image to scan next
    snapshot,       \* the document save_results_to_json wrote (NoDoc before)
    grype_doc,      \* main: what scan_image_with_grype returned for an image
    grype_stats,    \* main: what process_grype_results returned for it
    \* compare.py
    previous,       \* main: the previous snapshot, as loaded
    current,        \* main: the current snapshot, as loaded
    diff,           \* main: the value returned by calculate_diff (NoDoc before)
    markdown,       \* the report generate_markdown_report wrote (NoDoc before)
    console,        \* what the script printed so far, in order
    prev_file,      \* the file named by sys.argv[1]
    curr_file,      \* the file named by sys.argv[2]
    exit_code,      \* the status of sys.exit (NoDoc while the script runs)
    \* merge-scan-results.py
    trivy_data,     \* main: the scanner-A document
    grype_data,     \* main: the scanner-B document
    parsed,         \* the findings parse_*_results returned (NoDoc before)
    merged_ab,      \* merge_vulnerabilities(trivy_vulns, grype_vulns)
    merged_ba,      \* merge_vulnerabilities(grype_vulns, trivy_vulns)
    merged_ss,      \* merge_vulnerabilities(S, S) for one of the two lists
    output,         \* main: the document written to output_file (NoDoc before)
    hash_order,     \* the order in which this run iterates a set of strings
    \* control
    pc              \* the position of the script that runs

vars == <<images, results, next_image, snapshot, grype_doc, grype_stats,
          previous, current, diff, markdown, console, prev_file, curr_file,
          exit_code, trivy_data, grype_data, parsed, merged_ab, merged_ba, merged_ss,
          output, hash_order, pc>>

scanVars ==
    <<images, results, next_image, snapshot, grype_doc, grype_stats>>
compareVars ==
    <<previous, current, diff, markdown, console, prev_file, curr_file, exit_code>>
mergeVars ==
    <<trivy_data, grype_data, parsed, merged_ab, merged_ba, merged_ss, output,
      hash_order>>

-----------------------------------------------------------------------------
(* Bounds of the model.                                                    *)

\* the longest image list of a scan run, and of a snapshot
MaxImages == 2
\* the longest list of matches in one scanner document of scan.py
MaxMatches == 2
\* the longest list of vulnerabilities in one scanner document of the merge
MaxVulns == 2

-----------------------------------------------------------------------------
(* Python's dict and str.                                                  *)

\* d.get(k, def)
Get(d, k, def) == IF k \in DOMAIN d THEN d[k] ELSE def

\* {} : the dict with no key
EmptyDict == [k \in {} |-> 0]

\* the value of a variable that holds no document yet
NoDoc == [none |-> TRUE]

LowerLetters ==
    <<"a","b","c","d","e","f","g","h","i","j","k","l","m",
      "n","o","p","q","r","s","t","u","v","w","x","y","z">>
UpperLetters ==
    <<"A","B","C","D","E","F","G","H","I","J","K","L","M",
      "N","O","P","Q","R","S","T","U","V","W","X","Y","Z">>

LetterIndex(letters, c) ==
    IF \E i \in DOMAIN letters : letters[i] = c
    THEN CHOOSE i \in DOMAIN letters : letters[i] = c
    ELSE 0

\* str.lower(), character by character
Lower(s) ==
    [i \in DOMAIN s |->
        IF LetterIndex(UpperLetters, s[i]) # 0
        THEN LowerLetters[LetterIndex(UpperLetters, s[i])]
        ELSE s[i]]

\* str.upper(), character by character
Upper(s) ==
    [i \in DOMAIN s |->
        IF LetterIndex(LowerLetters, s[i]) # 0
        THEN UpperLetters[LetterIndex(LowerLetters, s[i])]
        ELSE s[i]]

\* the sequences over S of length at most n
SeqUpTo(S, n) == UNION {[1..k -> S] : k \in 0..n}

\* the elements of a sequence
Range(s) == {s[i] : i \in DOMAIN s}

\* sum(f(x) for x in s)
RECURSIVE SumSeq(_)
SumSeq(s) == IF s = <<>> THEN 0 ELSE Head(s) + SumSeq(Tail(s))

\* the six severities, in the order the code lists them
Severities == <<"critical", "high", "medium", "low", "negligible", "unknown">>
SeveritySet == Range(Severities)

\* Python's None
None == [py_none |-> TRUE]

\* the truth value Python gives a value that is None or a dict
Truthy(v) == v # None /\ DOMAIN v # {}

\* the string literals of the code on which it compares computed strings
Chars ==
    [critical   |-> <<"c","r","i","t","i","c","a","l">>,
     high       |-> <<"h","i","g","h">>,
     medium     |-> <<"m","e","d","i","u","m">>,
     low        |-> <<"l","o","w">>,
     negligible |-> <<"n","e","g","l","i","g","i","b","l","e">>,
     unknown    |-> <<"u","n","k","n","o","w","n">>,
     deb        |-> <<"d","e","b">>,
     rpm        |-> <<"r","p","m">>,
     apk        |-> <<"a","p","k">>,
     jar        |-> <<"j","a","r">>,
     npm        |-> <<"n","p","m">>,
     pip        |-> <<"p","i","p">>,
     gem        |-> <<"g","e","m">>,
     maven      |-> <<"m","a","v","e","n">>,
     composer   |-> <<"c","o","m","p","o","s","e","r">>,
     cargo      |-> <<"c","a","r","g","o">>,
     nuget      |-> <<"n","u","g","e","t">>,
     go         |-> <<"g","o">>]

-----------------------------------------------------------------------------
(* scripts/scan.py                                                         *)

\* VulnerabilityStats(): every counter 0
VulnerabilityStats == [s \in SeveritySet |-> 0]

\* VulnerabilityStats.total
StatsTotal(st) ==
    st.critical + st.high + st.medium + st.low + st.negligible + st.unknown

os_level_types == {Chars.deb, Chars.rpm, Chars.apk, Chars.jar, Chars.rpm}
app_level_types ==
    {Chars.npm, Chars.pip, Chars.gem, Chars.maven, Chars.composer,
     Chars.cargo, Chars.nuget, Chars.go}

\* a categorisation on the package type as written, without lower()
categorize_vulnerability_cased(vuln) ==
    LET package_type == Get(Get(vuln, "artifact", EmptyDict), "type", <<>>)
    IN  IF package_type \in os_level_types
        THEN <<"os_level", package_type>>
        ELSE <<"app_level", package_type>>

\* categorize_vulnerability: <<category, package_type>>
categorize_vulnerability(vuln) ==
    LET package_type == Lower(Get(Get(vuln, "artifact", EmptyDict), "type", <<>>))
    IN  IF package_type \in os_level_types
        THEN <<"os_level", package_type>>
        ELSE IF package_type \in app_level_types
             THEN <<"app_level", package_type>>
             ELSE <<"app_level", package_type>>

\* the counter the if/elif chain of process_grype_results increments
SeverityCounter(severity) ==
    IF severity = Chars.critical THEN "critical"
    ELSE IF severity = Chars.high THEN "high"
    ELSE IF severity = Chars.medium THEN "medium"
    ELSE IF severity = Chars.low THEN "low"
    ELSE IF severity = Chars.negligible THEN "negligible"
    ELSE "unknown"

\* a pass that leaves out a match whose severity is none of the five
CountMatchRecognized(acc, vuln) ==
    LET severity == Lower(Get(Get(vuln, "vulnerability", EmptyDict),
                              "severity", Chars.unknown))
        category == categorize_vulnerability(vuln)[1]
        counter  == SeverityCounter(severity)
    IN  IF counter = "unknown" THEN acc
        ELSE IF category = "os_level"
        THEN <<[acc[1] EXCEPT ![counter] = @ + 1], acc[2]>>
        ELSE <<acc[1], [acc[2] EXCEPT ![counter] = @ + 1]>>

\* one pass of the loop of process_grype_results over the match vuln;
\* acc is <<os_stats, app_stats>>
CountMatch(acc, vuln) ==
    LET severity == Lower(Get(Get(vuln, "vulnerability", EmptyDict),
                              "severity", Chars.unknown))
        category == categorize_vulnerability(vuln)[1]
        counter  == SeverityCounter(severity)
    IN  IF category = "os_level"
        THEN <<[acc[1] EXCEPT ![counter] = @ + 1], acc[2]>>
        ELSE <<acc[1], [acc[2] EXCEPT ![counter] = @ + 1]>>

RECURSIVE CountMatches(_, _)
CountMatches(acc, matches) ==
    IF matches = <<>> THEN acc
    ELSE CountMatches(CountMatch(acc, Head(matches)), Tail(matches))

\* process_grype_results: <<os_stats, app_stats>>
process_grype_results(grype_output) ==
    CountMatches(<<VulnerabilityStats, VulnerabilityStats>>,
                 Get(grype_output, "matches", <<>>))

\* the "os_level" and "app_level" dicts save_results_to_json writes
LevelData(st) ==
    [critical |-> st.critical, high |-> st.high, medium |-> st.medium,
     low |-> st.low, negligible |-> st.negligible, unknown |-> st.unknown,
     total |-> StatsTotal(st)]

\* a "total" dict whose "high" adds the counter of the OS level twice
TotalDataHighOfOs(os, app) ==
    [critical |-> os.critical + app.critical,
     high |-> os.high + os.high,
     medium |-> os.medium + app.medium,
     low |-> os.low + app.low,
     negligible |-> os.negligible + app.negligible,
     unknown |-> os.unknown + app.unknown,
     total |-> StatsTotal(os) + StatsTotal(app)]

\* the "total" dict save_results_to_json writes for one image
TotalData(os, app) ==
    [critical |-> os.critical + app.critical,
     high |-> os.high + app.high,
     medium |-> os.medium + app.medium,
     low |-> os.low + app.low,
     negligible |-> os.negligible + app.negligible,
     unknown |-> os.unknown + app.unknown,
     total |-> StatsTotal(os) + StatsTotal(app)]

\* the entry of output_data["images"] for one result
ImageData(result) ==
    [image |-> result.image_name,
     os_level |-> LevelData(result.os_level),
     app_level |-> LevelData(result.app_level),
     total |-> TotalData(result.os_level, result.app_level)]

\* output_data["summary"]: the sums over the results
SummaryData(rs) ==
    [os_level |->
        [k \in SeveritySet \cup {"total"} |->
            SumSeq([i \in DOMAIN rs |->
                IF k = "total" THEN StatsTotal(rs[i].os_level)
                ELSE rs[i].os_level[k]])],
     app_level |->
        [k \in SeveritySet \cup {"total"} |->
            SumSeq([i \in DOMAIN rs |->
                IF k = "total" THEN StatsTotal(rs[i].app_level)
                ELSE rs[i].app_level[k]])],
     total |->
        [k \in SeveritySet \cup {"total"} |->
            SumSeq([i \in DOMAIN rs |->
                IF k = "total"
                THEN StatsTotal(rs[i].os_level) + StatsTotal(rs[i].app_level)
                ELSE rs[i].os_level[k] + rs[i].app_level[k]])]]

\* save_results_to_json: the document written; now is datetime.now()
save_results_to_json(rs, now) ==
    [timestamp |-> now,
     images |-> [i \in DOMAIN rs |-> ImageData(rs[i])],
     summary |-> SummaryData(rs)]

-----------------------------------------------------------------------------
(* scripts/compare.py                                                      *)

\* the characters of the model's strings, by ascending code point
CodePoints ==
    <<"-", ".", "/", "0", "1", "2", "3", "4", "5", "6", "7", "8", "9", ":">>
    \o UpperLetters \o LowerLetters

Ord(c) == LetterIndex(CodePoints, c)

\* a < b for Python strings
RECURSIVE StrLess(_, _)
StrLess(a, b) ==
    IF b = <<>> THEN FALSE
    ELSE IF a = <<>> THEN TRUE
    ELSE IF Ord(Head(a)) # Ord(Head(b)) THEN Ord(Head(a)) < Ord(Head(b))
    ELSE StrLess(Tail(a), Tail(b))

\* sorted(S) for a set S of strings
RECURSIVE Sorted(_)
Sorted(S) ==
    IF S = {} THEN <<>>
    ELSE LET m == CHOOSE x \in S : \A y \in S \ {x} : StrLess(x, y)
         IN  <<m>> \o Sorted(S \ {m})

\* the index of the last entry of the list imgs whose "image" is name
LastIndexOf(imgs, name) ==
    CHOOSE i \in DOMAIN imgs :
        /\ imgs[i].image = name
        /\ \A j \in DOMAIN imgs : imgs[j].image = name => j <= i

\* {img["image"]: img for img in imgs}: a later entry replaces an earlier one
ImageLookup(imgs) ==
    [name \in {imgs[i].image : i \in DOMAIN imgs} |->
        imgs[LastIndexOf(imgs, name)]]

\* the keys of ImageLookup(imgs) in the order a dict lists them: by first insertion
RECURSIVE LookupKeys(_)
LookupKeys(imgs) ==
    IF imgs = <<>> THEN <<>>
    ELSE LET front == LookupKeys(SubSeq(imgs, 1, Len(imgs) - 1))
             name  == imgs[Len(imgs)].image
         IN  IF name \in Range(front) THEN front ELSE Append(front, name)

\* lookup.get(key): None when the key is absent
GetOrNone(lookup, key) == Get(lookup, key, None)

\* a delta taken as previous minus current
SeverityDeltaReversed(prev, curr) ==
    [severity \in SeveritySet |-> Get(prev, severity, 0) - Get(curr, severity, 0)]

\* {severity: curr.get(severity, 0) - prev.get(severity, 0)} over the six severities
SeverityDelta(prev, curr) ==
    [severity \in SeveritySet |-> Get(curr, severity, 0) - Get(prev, severity, 0)]

\* a status that takes every image found in the previous snapshot as compared
StatusOfPreviousOnly(prev_img, curr_img) ==
    IF Truthy(prev_img) THEN "compared"
    ELSE IF Truthy(curr_img) THEN "new"
    ELSE "unknown"

\* image_diff["status"]: the branch of the if/elif chain that is taken
StatusOf(prev_img, curr_img) ==
    IF Truthy(prev_img) /\ Truthy(curr_img) THEN "compared"
    ELSE IF Truthy(prev_img) /\ ~Truthy(curr_img) THEN "removed"
    ELSE IF ~Truthy(prev_img) /\ Truthy(curr_img) THEN "new"
    ELSE "unknown"

\* changes that are zero for a level one of the two entries does not have
ComparedChangesOfSharedLevels(prev_img, curr_img) ==
    LET Change(level) ==
            IF level \in DOMAIN prev_img /\ level \in DOMAIN curr_img
            THEN SeverityDelta(prev_img[level], curr_img[level])
            ELSE [severity \in SeveritySet |-> 0]
    IN  [os_level_change |-> Change("os_level"),
         app_level_change |-> Change("app_level"),
         total_change |-> Change("total")]

\* the three dicts of changes of an image found in both snapshots
ComparedChanges(prev_img, curr_img) ==
    [os_level_change |->
        SeverityDelta(Get(prev_img, "os_level", EmptyDict),
                      Get(curr_img, "os_level", EmptyDict)),
     app_level_change |->
        SeverityDelta(Get(prev_img, "app_level", EmptyDict),
                      Get(curr_img, "app_level", EmptyDict)),
     total_change |->
        SeverityDelta(Get(prev_img, "total", EmptyDict),
                      Get(curr_img, "total", EmptyDict))]

\* the dicts of changes as image_diff is created: all three empty
NoChanges ==
    [os_level_change |-> EmptyDict, app_level_change |-> EmptyDict,
     total_change |-> EmptyDict]

\* the body of the loop of calculate_diff: the image_diff of one image
ImageDiff(image, prev_img, curr_img) ==
    LET status == StatusOf(prev_img, curr_img)
        changes == IF status = "compared"
                   THEN ComparedChanges(prev_img, curr_img)
                   ELSE NoChanges
    IN  [image |-> image,
         status |-> status,
         os_level_change |-> changes.os_level_change,
         app_level_change |-> changes.app_level_change,
         total_change |-> changes.total_change]

\* diff["summary"]: the difference of the two stored summaries
SummaryDiff(prev, curr) ==
    LET prev_summary == Get(prev, "summary", EmptyDict)
        curr_summary == Get(curr, "summary", EmptyDict)
    IN  [category \in {"os_level", "app_level", "total"} |->
            SeverityDelta(Get(prev_summary, category, EmptyDict),
                          Get(curr_summary, category, EmptyDict))]

\* a file that does not exist, a file that is not JSON, and a file that
\* holds a JSON document
MissingFile == [missing |-> TRUE]
InvalidJsonFile == [invalid |-> TRUE]
JsonFile(doc) == [json |-> doc]

\* a loader that takes an unreadable file as an empty document
load_scan_results_lenient(file_path, file) ==
    IF "json" \in DOMAIN file THEN [value |-> file.json]
    ELSE [value |-> [images |-> <<>>]]

\* load_scan_results: the document of the file, or the line printed and the
\* status of sys.exit
load_scan_results(file_path, file) ==
    IF "missing" \in DOMAIN file
    THEN [exit |-> 1,
          line |-> [error |-> "File not found", file_path |-> file_path]]
    ELSE IF "invalid" \in DOMAIN file
    THEN [exit |-> 1,
          line |-> [error |-> "Invalid JSON in file", file_path |-> file_path]]
    ELSE [value |-> file.json]

\* calculate_diff
calculate_diff(prev, curr) ==
    LET prev_images == ImageLookup(Get(prev, "images", <<>>))
        curr_images == ImageLookup(Get(curr, "images", <<>>))
        all_images  == Sorted(DOMAIN prev_images \cup DOMAIN curr_images)
    IN  [previous_timestamp |-> Get(prev, "timestamp", None),
         current_timestamp |-> Get(curr, "timestamp", None),
         images |-> [i \in DOMAIN all_images |->
                        ImageDiff(all_images[i],
                                  GetOrNone(prev_images, all_images[i]),
                                  GetOrNone(curr_images, all_images[i]))],
         summary |-> SummaryDiff(prev, curr)]

\* an image name that keeps the registry and the path
get_image_name_unsplit(full_image) == full_image

\* get_image_name: full_image.split('/')[-1], the part after the last "/"
RECURSIVE get_image_name(_)
get_image_name(full_image) ==
    IF \E i \in DOMAIN full_image : full_image[i] = "/"
    THEN get_image_name(Tail(full_image))
    ELSE full_image

\* {get_image_name(full_path): (img, full_path) for full_path, img in
\*  lookup.items()}: of two full paths with one name the later one stays
ByName(imgs) ==
    LET keys   == LookupKeys(imgs)
        lookup == ImageLookup(imgs)
        last(name) == CHOOSE i \in DOMAIN keys :
                        /\ get_image_name(keys[i]) = name
                        /\ \A j \in DOMAIN keys :
                                get_image_name(keys[j]) = name => j <= i
    IN  [name \in {get_image_name(keys[i]) : i \in DOMAIN keys} |->
            [img |-> lookup[keys[last(name)]], full_path |-> keys[last(name)]]]

Digit == <<"0", "1", "2", "3", "4", "5", "6", "7", "8", "9">>

\* str(n) for n >= 0
RECURSIVE Decimal(_)
Decimal(n) ==
    IF n < 10 THEN <<Digit[n + 1]>>
    ELSE Decimal(n \div 10) \o <<Digit[(n % 10) + 1]>>

\* f"{n:+d}"
PlusD(n) == IF n < 0 THEN <<"-">> \o Decimal(-n) ELSE <<"+">> \o Decimal(n)

\* str.capitalize()
Capitalize(s) == IF s = <<>> THEN s ELSE Upper(<<Head(s)>>) \o Lower(Tail(s))

\* image_display: both full paths when they differ, else the current one
ImageDisplay(prev_full_path, curr_full_path) ==
    IF prev_full_path # curr_full_path
    THEN <<prev_full_path, curr_full_path>>
    ELSE <<curr_full_path>>

\* the severities of the summary row and of the breakdown table
RowSeverities == <<"critical", "high", "medium", "low">>
BreakdownSeverities == <<"critical", "high", "medium", "low", "negligible">>

\* one row of the summary table, for an image name found in both snapshots
SummaryRow(image_name, prev_data, curr_data) ==
    LET prev_total == Get(prev_data.img, "total", EmptyDict)
        curr_total == Get(curr_data.img, "total", EmptyDict)
        before_total == Get(prev_total, "total", 0)
        after_total  == Get(curr_total, "total", 0)
        change(sev)  == Get(curr_total, sev, 0) - Get(prev_total, sev, 0)
    IN  [image_name |-> image_name,
         image_display |-> ImageDisplay(prev_data.full_path, curr_data.full_path),
         before_total |-> before_total,
         before |-> [i \in DOMAIN RowSeverities |->
                        Get(prev_total, RowSeverities[i], 0)],
         after_total |-> after_total,
         after |-> [i \in DOMAIN RowSeverities |->
                        Get(curr_total, RowSeverities[i], 0)],
         change_total |-> PlusD(after_total - before_total),
         change |-> IF \E i \in DOMAIN RowSeverities : change(RowSeverities[i]) # 0
                    THEN [i \in DOMAIN RowSeverities |->
                            PlusD(change(RowSeverities[i]))]
                    ELSE <<>>]

\* has_changes of the breakdown loop
has_changes(prev_total, curr_total) ==
    \E i \in DOMAIN BreakdownSeverities :
        Get(prev_total, BreakdownSeverities[i], 0)
            # Get(curr_total, BreakdownSeverities[i], 0)

\* the breakdown section of one image name found in both snapshots
BreakdownSection(image_name, prev_data, curr_data) ==
    LET prev_total == Get(prev_data.img, "total", EmptyDict)
        curr_total == Get(curr_data.img, "total", EmptyDict)
    IN  [image_name |-> image_name,
         image_display |-> ImageDisplay(prev_data.full_path, curr_data.full_path),
         rows |-> [i \in DOMAIN BreakdownSeverities |->
                    LET severity == BreakdownSeverities[i]
                        before == Get(prev_total, severity, 0)
                        after  == Get(curr_total, severity, 0)
                    IN  [severity |-> Capitalize(Chars[severity]),
                         before |-> before, after |-> after,
                         delta |-> PlusD(after - before)]],
         total |-> [before |-> Get(prev_total, "total", 0),
                    after |-> Get(curr_total, "total", 0),
                    delta |-> PlusD(Get(curr_total, "total", 0)
                                    - Get(prev_total, "total", 0))]]

\* generate_markdown_report: the rows of the summary table and the sections
\* of the breakdown, in the order written
generate_markdown_report(prev, curr) ==
    LET prev_by_name == ByName(Get(prev, "images", <<>>))
        curr_by_name == ByName(Get(curr, "images", <<>>))
        all_image_names == Sorted(DOMAIN prev_by_name \cup DOMAIN curr_by_name)
        both(name) == name \in DOMAIN prev_by_name /\ name \in DOMAIN curr_by_name
        row(name) == SummaryRow(name, prev_by_name[name], curr_by_name[name])
        changed(name) ==
            /\ both(name)
            /\ has_changes(Get(prev_by_name[name].img, "total", EmptyDict),
                           Get(curr_by_name[name].img, "total", EmptyDict))
        section(name) ==
            BreakdownSection(name, prev_by_name[name], curr_by_name[name])
        matched == SelectSeq(all_image_names, both)
        detailed == SelectSeq(all_image_names, changed)
    IN  [summary_table |-> [i \in DOMAIN matched |-> row(matched[i])],
         breakdown |-> [i \in DOMAIN detailed |-> section(detailed[i])]]

\* f"{s:<n}": s followed by spaces up to the width n
RECURSIVE PadRight(_, _)
PadRight(s, n) == IF Len(s) >= n THEN s ELSE PadRight(Append(s, " "), n)

\* f"{s:>n}": s after spaces up to the width n
RECURSIVE PadLeft(_, _)
PadLeft(s, n) == IF Len(s) >= n THEN s ELSE PadLeft(<<" ">> \o s, n)

\* format_num of format_severity_row
format_num(num) ==
    IF num > 0 THEN <<"+">> \o Decimal(num)
    ELSE IF num < 0 THEN <<"-">> \o Decimal(-num)
    ELSE <<"0">>

\* format_severity_row: the label and the five cells of the row
format_severity_row(severity, values) ==
    [severity |-> severity,
     cells |-> [i \in DOMAIN BreakdownSeverities |->
                  PadRight(format_num(Get(values, BreakdownSeverities[i], 0)), 6)]]

\* sum(v for v in changes.values())
SumValues(changes) ==
    LET keys == SelectSeq(Severities, LAMBDA k : k \in DOMAIN changes)
    IN  SumSeq([i \in DOMAIN keys |-> changes[keys[i]]])

\* the table print_comparison prints for one level of the summary
SummaryTable(changes) ==
    [row |-> format_severity_row("Changes", changes),
     total |-> PadLeft(PlusD(SumValues(changes)), 6)]

\* the lines print_comparison prints for one level of a compared image:
\* none when no value of the dict differs from 0
LevelLines(title, change) ==
    LET shown == SelectSeq(BreakdownSeverities,
                           LAMBDA sev : Get(change, sev, 0) # 0)
    IN  IF \E k \in DOMAIN change : change[k] # 0
        THEN <<[kind |-> "level", title |-> title]>>
             \o [i \in DOMAIN shown |->
                    [kind |-> "change",
                     symbol |-> IF Get(change, shown[i], 0) > 0
                                THEN "alarm" ELSE "check",
                     sev |-> shown[i],
                     val |-> PlusD(Get(change, shown[i], 0))]]
        ELSE <<>>

\* the lines print_comparison prints for one entry of diff["images"]
ImageLines(img_diff) ==
    LET image == Get(img_diff, "image", None)
        status == Get(img_diff, "status", None)
        os_change == Get(img_diff, "os_level_change", EmptyDict)
        app_change == Get(img_diff, "app_level_change", EmptyDict)
        os_lines == LevelLines("OS/Container-Level", os_change)
        app_lines == LevelLines("Application-Level", app_change)
    IN  IF status = "removed" THEN <<[kind |-> "removed", image |-> image]>>
        ELSE IF status = "new" THEN <<[kind |-> "new", image |-> image]>>
        ELSE IF status = "compared"
             THEN <<[kind |-> "compared", image |-> image]>>
                  \o os_lines \o app_lines
                  \o (IF os_lines = <<>> /\ app_lines = <<>>
                      THEN <<[kind |-> "no_changes"]>> ELSE <<>>)
             ELSE <<>>

\* a key finding on a change: nothing is printed for a change of 0
KeyFinding(change, what) ==
    IF change < 0
    THEN <<[symbol |-> "check", label |-> "Remediated",
            count |-> Decimal(-change), what |-> what]>>
    ELSE IF change > 0
         THEN <<[symbol |-> "alarm", label |-> "Introduced",
                 count |-> Decimal(change), what |-> what]>>
         ELSE <<>>

\* the last key finding, on the overall total
OverallFinding(overall_total) ==
    IF overall_total = 0
    THEN <<[symbol |-> "check", label |-> "No change", count |-> <<>>,
            what |-> "total vulnerability count"]>>
    ELSE IF overall_total < 0
         THEN <<[symbol |-> "check", label |-> "remediated",
                 count |-> Decimal(-overall_total), what |-> "Overall"]>>
         ELSE <<[symbol |-> "alarm", label |-> "introduced",
                 count |-> Decimal(overall_total), what |-> "Overall"]>>

\* print_comparison: what is printed, section by section
print_comparison(d) ==
    LET summary == Get(d, "summary", EmptyDict)
        os_changes == Get(summary, "os_level", EmptyDict)
        app_changes == Get(summary, "app_level", EmptyDict)
        total_changes == Get(summary, "total", EmptyDict)
        imgs == Get(d, "images", <<>>)
    IN  [previous_timestamp |-> Get(d, "previous_timestamp", "Unknown"),
         current_timestamp |-> Get(d, "current_timestamp", "Unknown"),
         os_level |-> SummaryTable(os_changes),
         app_level |-> SummaryTable(app_changes),
         total |-> SummaryTable(total_changes),
         images |-> [i \in DOMAIN imgs |-> ImageLines(imgs[i])],
         key_findings |->
            KeyFinding(Get(total_changes, "critical", 0), "Critical")
            \o KeyFinding(Get(total_changes, "high", 0), "High")
            \o KeyFinding(SumValues(os_changes), "OS/Container-level")
            \o KeyFinding(SumValues(app_changes), "Application-level")
            \o OverallFinding(SumValues(total_changes))]

-----------------------------------------------------------------------------
(* scripts/merge-scan-results.py                                           *)

\* an optional number or string: <<>> is Python's None, <<x>> is the value x
Nothing == <<>>
Some(x) == <<x>>

\* the truth value Python gives an optional number, and an optional string
TruthyScore(o) == o # Nothing /\ o[1] # 0
TruthyText(o) == o # Nothing /\ o[1] # ""

\* the literal "UNKNOWN"
UNKNOWN == <<"U","N","K","N","O","W","N">>

\* normalize_severity
normalize_severity(severity) ==
    IF severity # <<>> THEN Upper(severity) ELSE UNKNOWN

\* one pass of the loop over cvss_data.values(); acc holds cvss_v2_score,
\* cvss_v3_score and cvss_vector
CvssStep(acc, source_data) ==
    LET v2 == IF ~TruthyScore(acc.cvss_v2_score) /\ "V2Score" \in DOMAIN source_data
              THEN Some(source_data["V2Score"]) ELSE acc.cvss_v2_score
        v3 == IF ~TruthyScore(acc.cvss_v3_score) /\ "V3Score" \in DOMAIN source_data
              THEN Some(source_data["V3Score"]) ELSE acc.cvss_v3_score
        vector ==
            IF ~TruthyText(acc.cvss_vector) /\ "V3Vector" \in DOMAIN source_data
            THEN Some(source_data["V3Vector"])
            ELSE IF ~TruthyText(acc.cvss_vector) /\ "V2Vector" \in DOMAIN source_data
                 THEN Some(source_data["V2Vector"])
                 ELSE acc.cvss_vector
    IN  [cvss_v2_score |-> v2, cvss_v3_score |-> v3, cvss_vector |-> vector]

RECURSIVE CvssLoop(_, _)
CvssLoop(acc, sources) ==
    IF sources = <<>> THEN acc
    ELSE CvssLoop(CvssStep(acc, Head(sources)), Tail(sources))

\* the finding parse_trivy_results makes of one vulnerability of a result;
\* "CVSS" holds the values of the CVSS map in the order of the document
NormalizeTrivy(vuln, target, vuln_type) ==
    LET cvss == CvssLoop([cvss_v2_score |-> Nothing, cvss_v3_score |-> Nothing,
                          cvss_vector |-> Nothing],
                         Get(vuln, "CVSS", <<>>))
    IN  [id |-> Get(vuln, "VulnerabilityID", ""),
         package |-> Get(vuln, "PkgName", <<>>),
         version |-> Get(vuln, "InstalledVersion", ""),
         severity |-> normalize_severity(Get(vuln, "Severity", <<>>)),
         title |-> Get(vuln, "Title", ""),
         description |-> Get(vuln, "Description", ""),
         fixed_version |-> Get(vuln, "FixedVersion", ""),
         cvss_score |-> IF TruthyScore(cvss.cvss_v3_score)
                        THEN cvss.cvss_v3_score ELSE cvss.cvss_v2_score,
         cvss_v2_score |-> cvss.cvss_v2_score,
         cvss_v3_score |-> cvss.cvss_v3_score,
         cvss_vector |-> cvss.cvss_vector,
         references |-> Get(vuln, "References", <<>>),
         target |-> target,
         type |-> vuln_type,
         source |-> "trivy"]

\* the findings of one result of the scanner-A document
TrivyResultFindings(result) ==
    LET vulns == Get(result, "Vulnerabilities", <<>>)
    IN  [i \in DOMAIN vulns |->
            NormalizeTrivy(vulns[i], Get(result, "Target", ""),
                           Get(result, "Type", ""))]

RECURSIVE TrivyResultsLoop(_)
TrivyResultsLoop(rs) ==
    IF rs = <<>> THEN <<>>
    ELSE TrivyResultFindings(Head(rs)) \o TrivyResultsLoop(Tail(rs))

\* None where a document is to hold a list of dicts (JSON null): written as
\* a sequence, apart from every list of dicts, since a value that may be a
\* list is compared with it
NullArray == <<None>>
IsNone(v) == v = NullArray

\* the exception Python raises on "for x in None", where a list of findings
\* is returned otherwise
TypeError == <<[raised |-> "TypeError"]>>

\* a call ended with an exception instead of a value
Raised(v) == v = TypeError

\* parse_trivy_results: the findings, or the exception of a loop over None
parse_trivy_results(data) ==
    LET rs == Get(data, "Results", <<>>)
    IN  IF IsNone(rs) THEN TypeError
        ELSE IF \E i \in DOMAIN rs :
                    IsNone(Get(rs[i], "Vulnerabilities", <<>>))
             THEN TypeError
             ELSE TrivyResultsLoop(rs)

\* the finding parse_grype_results makes of one match
NormalizeGrype(match) ==
    LET vuln == Get(match, "vulnerability", EmptyDict)
        artifact == Get(match, "artifact", EmptyDict)
        versions == Get(Get(vuln, "fix", EmptyDict), "versions", <<>>)
    IN  [id |-> Get(vuln, "id", ""),
         package |-> Get(artifact, "name", <<>>),
         version |-> Get(artifact, "version", ""),
         severity |-> normalize_severity(Get(vuln, "severity", <<>>)),
         title |-> "",
         description |-> Get(vuln, "description", ""),
         fixed_version |-> IF versions # <<>> THEN versions[1] ELSE "",
         cvss_score |-> Nothing,
         cvss_v2_score |-> Nothing,
         cvss_v3_score |-> Nothing,
         cvss_vector |-> Nothing,
         references |-> Get(vuln, "urls", <<>>),
         target |-> Get(artifact, "type", ""),
         type |-> Get(artifact, "type", ""),
         source |-> "grype"]

\* parse_grype_results: the findings, or the exception of a loop over None
parse_grype_results(data) ==
    LET matches == Get(data, "matches", <<>>)
    IN  IF IsNone(matches) THEN TypeError
        ELSE [i \in DOMAIN matches |-> NormalizeGrype(matches[i])]

\* a key that keeps the case of the package name
create_vuln_key_cased(vuln) == <<vuln.id, vuln.package, vuln.version>>

\* create_vuln_key
create_vuln_key(vuln) == <<vuln.id, Lower(vuln.package), vuln.version>>

\* vuln[key] = value on a dict that may not hold the key yet
SetItem(vuln, key, value) == (key :> value) @@ vuln

\* list(a | b) for the lists a and b of strings: each element once, in the
\* order in which this run of the interpreter iterates the set
RECURSIVE ListOfSet(_, _)
ListOfSet(elems, order) ==
    IF order = <<>> THEN <<>>
    ELSE (IF Head(order) \in elems THEN <<Head(order)>> ELSE <<>>)
         \o ListOfSet(elems, Tail(order))

(***************************************************************************)
(* merge_vulnerabilities works on objects: the lists it is given and the   *)
(* dict it builds hold references to the finding dicts, and an assignment  *)
(* to a finding changes the one object every reference sees.  heap is the  *)
(* sequence of the finding objects, a reference is an index in it.  The    *)
(* state of a call is                                                      *)
(*   heap    the finding objects                                           *)
(*   keys    the keys of merged, in the order of insertion                 *)
(*   merged  key -> reference                                              *)
(*   both, grype_only   the counters of stats                              *)
(***************************************************************************)

\* merged[key] = ref
MergedPut(st, key, ref) ==
    [st EXCEPT !.keys = IF key \in DOMAIN st.merged THEN @ ELSE Append(@, key),
               !.merged = (key :> ref) @@ @]

\* one pass of the loop over trivy_vulns
TrivyStep(st, ref) ==
    LET key == create_vuln_key(st.heap[ref])
        tagged == [st EXCEPT !.heap[ref] = SetItem(@, "found_by", <<"trivy">>)]
    IN  MergedPut(tagged, key, ref)

\* a description that is replaced by one of the same length as well
KeepDescriptionOrEqual(existing, vuln) ==
    IF Len(vuln.description) >= Len(existing.description)
    THEN [existing EXCEPT !.description = vuln.description]
    ELSE existing

\* "Keep more detailed description": existing after the if on the lengths
KeepDescription(existing, vuln) ==
    IF Len(vuln.description) > Len(existing.description)
    THEN [existing EXCEPT !.description = vuln.description]
    ELSE existing

\* a fixed version that every later non-empty one replaces
KeepFixedVersionOfLast(existing, vuln) ==
    IF vuln.fixed_version # ""
    THEN [existing EXCEPT !.fixed_version = vuln.fixed_version]
    ELSE existing

\* "Keep fixed version if not present": existing after the if on the two
\* fixed versions
KeepFixedVersion(existing, vuln) ==
    IF existing.fixed_version = "" /\ vuln.fixed_version # ""
    THEN [existing EXCEPT !.fixed_version = vuln.fixed_version]
    ELSE existing

\* "Merge references (URLs) from both sources": existing with the list of
\* the union of the two sets
MergeReferences(existing, vuln, order) ==
    [existing EXCEPT !.references =
        ListOfSet(Range(existing.references) \cup Range(vuln.references),
                  order)]

\* a branch that counts the finding and leaves found_by as it is
MergeIntoCounted(st, key, ref, order) == [st EXCEPT !.both = @ + 1]

\* the branch of the loop over grype_vulns for a key merged holds already
MergeInto(st, key, ref, order) ==
    LET vuln == st.heap[ref]
        e == st.merged[key]
        appended == [st.heap[e] EXCEPT !.found_by = Append(@, "grype")]
        described == KeepDescription(appended, vuln)
        fixed == KeepFixedVersion(described, vuln)
        referenced == MergeReferences(fixed, vuln, order)
    IN  [st EXCEPT !.heap[e] = referenced, !.both = @ + 1]

\* the branch of the loop over grype_vulns for a key merged does not hold
AddGrype(st, key, ref) ==
    LET tagged == [st EXCEPT !.heap[ref] = SetItem(@, "found_by", <<"grype">>),
                             !.grype_only = @ + 1]
    IN  MergedPut(tagged, key, ref)

\* one pass of the loop over grype_vulns
GrypeStep(st, ref, order) ==
    LET key == create_vuln_key(st.heap[ref])
    IN  IF key \in DOMAIN st.merged
        THEN MergeInto(st, key, ref, order)
        ELSE AddGrype(st, key, ref)

RECURSIVE TrivyLoop(_, _)
TrivyLoop(st, refs) ==
    IF refs = <<>> THEN st
    ELSE TrivyLoop(TrivyStep(st, Head(refs)), Tail(refs))

RECURSIVE GrypeLoop(_, _, _)
GrypeLoop(st, refs, order) ==
    IF refs = <<>> THEN st
    ELSE GrypeLoop(GrypeStep(st, Head(refs), order), Tail(refs), order)

\* a count kept by counters: the keys left once the other two are taken off
CountTrivyByCounters(st) == Len(st.keys) - st.grype_only - st.both

\* a count of the merged findings whose found_by holds "trivy"
CountTrivyFound(st) ==
    Cardinality({key \in DOMAIN st.merged :
                    "trivy" \in Range(st.heap[st.merged[key]].found_by)})

\* stats["trivy_only"]: the merged findings whose found_by is ["trivy"]
CountTrivyOnly(st) ==
    Cardinality({key \in DOMAIN st.merged :
                    st.heap[st.merged[key]].found_by = <<"trivy">>})

\* merge_vulnerabilities(trivy_vulns, grype_vulns) on the objects of heap:
\* the list returned (references, in the order of merged), the stats, and
\* the objects as the call leaves them
merge_vulnerabilities(heap, trivy_vulns, grype_vulns, order) ==
    LET start == [heap |-> heap, keys |-> <<>>, merged |-> EmptyDict,
                  both |-> 0, grype_only |-> 0]
        st == GrypeLoop(TrivyLoop(start, trivy_vulns), grype_vulns, order)
    IN  [merged_vulns |-> [i \in DOMAIN st.keys |-> st.merged[st.keys[i]]],
         stats |-> [trivy_only |-> CountTrivyOnly(st),
                    grype_only |-> st.grype_only,
                    both |-> st.both],
         heap |-> st.heap]

\* ",".join(names)
RECURSIVE Join(_)
Join(names) ==
    IF names = <<>> THEN ""
    ELSE IF Len(names) = 1 THEN names[1]
    ELSE names[1] \o "," \o Join(Tail(names))

\* the targets of the findings, in the order by_target gets its keys
RECURSIVE TargetsOf(_)
TargetsOf(merged_vulns) ==
    IF merged_vulns = <<>> THEN <<>>
    ELSE LET front == TargetsOf(SubSeq(merged_vulns, 1, Len(merged_vulns) - 1))
             target == Get(merged_vulns[Len(merged_vulns)], "target", "merged")
         IN  IF target \in Range(front) THEN front ELSE Append(front, target)

\* by_target[target]: the findings of a target, in the order of the list
ByTarget(merged_vulns, target) ==
    SelectSeq(merged_vulns, LAMBDA v : Get(v, "target", "merged") = target)

\* a conversion that leaves out a finding without a fixed version
TrivyVulnsOfFixed(vulns) ==
    LET fixed == SelectSeq(vulns, LAMBDA v : v.fixed_version # "")
    IN  [i \in DOMAIN fixed |->
            [VulnerabilityID |-> fixed[i].id, PkgName |-> fixed[i].package,
             InstalledVersion |-> fixed[i].version]]

\* trivy_vulns of a target: each finding converted back to the scanner-A
\* format, the CVSS fields added when they hold a value that counts as true
TrivyVulnsOf(vulns) ==
    [i \in DOMAIN vulns |->
        LET v == vulns[i]
        IN  (IF TruthyScore(Get(v, "cvss_score", Nothing))
             THEN [CVSSScore |-> v.cvss_score[1]] ELSE EmptyDict)
            @@ (IF TruthyScore(Get(v, "cvss_v2_score", Nothing))
                THEN [CVSSV2Score |-> v.cvss_v2_score[1]] ELSE EmptyDict)
            @@ (IF TruthyScore(Get(v, "cvss_v3_score", Nothing))
                THEN [CVSSV3Score |-> v.cvss_v3_score[1]] ELSE EmptyDict)
            @@ (IF TruthyText(Get(v, "cvss_vector", Nothing))
                THEN [CVSSVector |-> v.cvss_vector[1]] ELSE EmptyDict)
            @@ [VulnerabilityID |-> v.id,
                PkgName |-> v.package,
                InstalledVersion |-> v.version,
                Severity |-> v.severity,
                Title |-> v.title,
                Description |-> v.description,
                FixedVersion |-> v.fixed_version,
                References |-> Get(v, "references", <<>>),
                FoundBy |-> Join(v.found_by)]]

\* create_trivy_compatible_output
create_trivy_compatible_output(merged_vulns, original_trivy_data) ==
    LET targets == TargetsOf(merged_vulns)
    IN  [SchemaVersion |-> Get(original_trivy_data, "SchemaVersion", 2),
         ArtifactName |-> Get(original_trivy_data, "ArtifactName", ""),
         ArtifactType |-> Get(original_trivy_data, "ArtifactType", ""),
         Metadata |-> Get(original_trivy_data, "Metadata", EmptyDict),
         Results |->
            [i \in DOMAIN targets |->
                LET vulns == ByTarget(merged_vulns, targets[i])
                IN  [Target |-> targets[i],
                     Type |-> IF vulns # <<>> THEN vulns[1].type ELSE "",
                     Vulnerabilities |-> TrivyVulnsOf(vulns)]]]

\* output["MergeStats"] of main
MergeStats(trivy_vulns, grype_vulns, merged_vulns, stats) ==
    [trivy_count |-> Len(trivy_vulns),
     grype_count |-> Len(grype_vulns),
     merged_count |-> Len(merged_vulns),
     trivy_only |-> stats.trivy_only,
     grype_only |-> stats.grype_only,
     found_by_both |-> stats.both]

-----------------------------------------------------------------------------
(* The inputs of the model.                                                *)

\* image references: one image under two registries, and another image
ImageNames ==
    {<<"a","p","p",":","1">>,
     <<"r",".","i","o","/","a","p","p",":","1">>,
     <<"d","b",":","2">>}

\* the images of the services of docker-compose.yml that scan.py scans
ComposeImages == {<<"a","p","p",":","1">>, <<"d","b",":","2">>}

\* matches of a scanner-B document, as scan.py reads them
MatchCriticalDeb ==
    [vulnerability |-> [severity |-> <<"C","r","i","t","i","c","a","l">>],
     artifact |-> [type |-> <<"d","e","b">>]]
MatchHighNpm ==
    [vulnerability |-> [severity |-> <<"H","I","G","H">>],
     artifact |-> [type |-> <<"n","p","m">>]]
MatchBogusNoType ==
    [vulnerability |-> [severity |-> <<"b","o","g","u","s">>],
     artifact |-> EmptyDict]
MatchKinds == {MatchCriticalDeb, MatchHighNpm, MatchBogusNoType}

\* what scan_image_with_grype returns: {} when the output did not parse
GrypeOutputs ==
    {EmptyDict} \cup {[matches |-> m] : m \in SeqUpTo(MatchKinds, MaxMatches)}

\* datetime.now() of two scan runs
PreviousTime == "2026-01-01T00:00:00"
CurrentTime == "2026-01-02T00:00:00"

\* the idle value of the variables of the scripts that do not run
IdleScan ==
    /\ images = <<>> /\ results = <<>> /\ next_image = 0 /\ snapshot = NoDoc
    /\ grype_doc = NoDoc /\ grype_stats = NoDoc
IdleCompare ==
    /\ previous = NoDoc /\ current = NoDoc /\ diff = NoDoc /\ markdown = NoDoc
    /\ console = <<>> /\ prev_file = NoDoc /\ curr_file = NoDoc
    /\ exit_code = NoDoc
IdleMerge ==
    /\ trivy_data = NoDoc /\ grype_data = NoDoc /\ parsed = NoDoc
    /\ merged_ab = NoDoc /\ merged_ba = NoDoc /\ merged_ss = NoDoc
    /\ output = NoDoc
    /\ hash_order = <<>>

-----------------------------------------------------------------------------
(* scan.py, main: scan every image, then save the results.                 *)

ScanInit ==
    /\ images \in SeqUpTo(ComposeImages, MaxImages) \ {<<>>}
    /\ results = <<>>
    /\ next_image = 1
    /\ snapshot = NoDoc
    /\ grype_doc = NoDoc /\ grype_stats = NoDoc
    /\ pc = "scan"
    /\ IdleCompare /\ IdleMerge

\* one pass of the loop over images: a result is appended when the scanner
\* output is not empty
ScanImage ==
    /\ pc = "scan"
    /\ next_image <= Len(images)
    /\ \E grype_output \in GrypeOutputs :
        LET stats == process_grype_results(grype_output)
        IN  results' =
                IF DOMAIN grype_output # {}
                THEN Append(results,
                            [image_name |-> images[next_image],
                             os_level |-> stats[1],
                             app_level |-> stats[2]])
                ELSE results
    /\ next_image' = next_image + 1
    /\ UNCHANGED <<images, snapshot, grype_doc, grype_stats, pc, compareVars,
                   mergeVars>>

\* no image gave a result: sys.exit(1)
NoResults ==
    /\ pc = "scan"
    /\ next_image > Len(images)
    /\ results = <<>>
    /\ pc' = "exit"
    /\ UNCHANGED <<scanVars, compareVars, mergeVars>>

\* save_results_to_json(results)
SaveResults ==
    /\ pc = "scan"
    /\ next_image > Len(images)
    /\ results # <<>>
    /\ snapshot' = save_results_to_json(results, CurrentTime)
    /\ pc' = "saved"
    /\ UNCHANGED <<images, results, next_image, grype_doc, grype_stats,
                   compareVars, mergeVars>>

ScanNext == ScanImage \/ NoResults \/ SaveResults

ScanSpec == ScanInit /\ [][ScanNext]_vars

-----------------------------------------------------------------------------
(* scan.py, process_grype_results on one scanner document: the call of     *)
(* main's loop taken alone, on matches of every kind of package type.      *)

\* matches whose package type is in upper case, in neither of the two sets,
\* empty, or missing with the artifact
MatchLowApkUpper ==
    [vulnerability |-> [severity |-> <<"l","o","w">>],
     artifact |-> [type |-> <<"A","P","K">>]]
MatchMediumJar ==
    [vulnerability |-> [severity |-> <<"M","e","d","i","u","m">>],
     artifact |-> [type |-> <<"j","a","r">>]]
MatchMediumBinary ==
    [vulnerability |-> [severity |-> <<"m","e","d","i","u","m">>],
     artifact |-> [type |-> <<"b","i","n","a","r","y">>]]
MatchNegligibleEmptyType ==
    [vulnerability |-> [severity |-> <<"n","e","g","l","i","g","i","b","l","e">>],
     artifact |-> [type |-> <<>>]]
MatchHighNoArtifact ==
    [vulnerability |-> [severity |-> <<"h","i","g","h">>]]
MatchNoSeverityRpm == [artifact |-> [type |-> <<"r","p","m">>]]
TypedMatchKinds ==
    MatchKinds \cup {MatchLowApkUpper, MatchMediumJar, MatchMediumBinary,
                     MatchNegligibleEmptyType, MatchHighNoArtifact,
                     MatchNoSeverityRpm}

ProcessInit ==
    /\ grype_doc \in {[matches |-> m] : m \in SeqUpTo(TypedMatchKinds, MaxMatches)}
    /\ grype_stats = NoDoc
    /\ images = <<>> /\ results = <<>> /\ next_image = 0 /\ snapshot = NoDoc
    /\ pc = "process"
    /\ IdleCompare /\ IdleMerge

\* os_stats, app_stats = process_grype_results(grype_output)
ProcessGrypeResults ==
    /\ pc = "process"
    /\ grype_stats' = process_grype_results(grype_doc)
    /\ pc' = "processed"
    /\ UNCHANGED <<images, results, next_image, snapshot, grype_doc,
                   compareVars, mergeVars>>

ProcessNext == ProcessGrypeResults

ProcessSpec == ProcessInit /\ [][ProcessNext]_vars

-----------------------------------------------------------------------------
(* compare.py, main: both snapshots are loaded, then compared and reported.*)

\* the scanner outputs behind the images of the previous snapshot, and of
\* the current one: between a previous and a current output the counts fall,
\* rise, stay, or change in "unknown" alone
OutputA == [matches |-> <<MatchCriticalDeb, MatchCriticalDeb, MatchHighNpm>>]
OutputB == [matches |-> <<MatchCriticalDeb, MatchCriticalDeb, MatchHighNpm,
                          MatchBogusNoType>>]
OutputC == [matches |-> <<MatchCriticalDeb, MatchHighNpm, MatchBogusNoType>>]
PreviousOutputs == {OutputA, OutputC}
CurrentOutputs == {OutputB, OutputC}

\* the results of scanning one image
ResultsOf(outputs) ==
    {[image_name |-> name,
      os_level |-> process_grype_results(out)[1],
      app_level |-> process_grype_results(out)[2]] :
        name \in ImageNames, out \in outputs}

\* the snapshots scan.py writes at time now for such outputs
Snapshots(outputs, now) ==
    {save_results_to_json(rs, now) :
        rs \in SeqUpTo(ResultsOf(outputs), MaxImages) \ {<<>>}}

Init ==
    /\ previous \in Snapshots(PreviousOutputs, PreviousTime)
    /\ current \in Snapshots(CurrentOutputs, CurrentTime)
    /\ prev_file = JsonFile(previous)
    /\ curr_file = JsonFile(current)
    /\ diff = NoDoc
    /\ markdown = NoDoc
    /\ console = <<>>
    /\ exit_code = NoDoc
    /\ pc = "compare"
    /\ IdleScan /\ IdleMerge

\* diff = calculate_diff(previous, current)
CalculateDiff ==
    /\ pc = "compare"
    /\ diff' = calculate_diff(previous, current)
    /\ pc' = "print"
    /\ UNCHANGED <<previous, current, markdown, console, prev_file, curr_file,
                   exit_code, scanVars, mergeVars>>

\* a print_comparison that empties the list of images it has printed
PrintComparisonConsuming ==
    /\ pc = "print"
    /\ console' = Append(console, [report |-> print_comparison(diff)])
    /\ diff' = [diff EXCEPT !.images = <<>>]
    /\ pc' = "report"
    /\ UNCHANGED <<previous, current, markdown, prev_file, curr_file,
                   exit_code, scanVars, mergeVars>>

\* print_comparison(diff)
PrintComparison ==
    /\ pc = "print"
    /\ console' = Append(console, [report |-> print_comparison(diff)])
    /\ pc' = "report"
    /\ UNCHANGED <<previous, current, diff, markdown, prev_file, curr_file,
                   exit_code, scanVars, mergeVars>>

\* md_file = generate_markdown_report(previous, current)
GenerateMarkdownReport ==
    /\ pc = "report"
    /\ markdown' = generate_markdown_report(previous, current)
    /\ pc' = "done"
    /\ UNCHANGED <<previous, current, diff, console, prev_file, curr_file,
                   exit_code, scanVars, mergeVars>>

Next == CalculateDiff \/ PrintComparison \/ GenerateMarkdownReport

Spec == Init /\ [][Next]_vars

-----------------------------------------------------------------------------
(* merge-scan-results.py: both documents are parsed, then merged.  The     *)
(* merge is called as main calls it, with the two lists exchanged, and     *)
(* with one list given twice; each call gets the findings as parsed.       *)

\* vulnerabilities of a scanner-A result
TrivyFooHigh ==
    [VulnerabilityID |-> "CVE-2024-1", PkgName |-> <<"F","o","o">>,
     InstalledVersion |-> "1.0", Severity |-> <<"H","i","g","h">>,
     Title |-> "Foo overflow", Description |-> "short", FixedVersion |-> "",
     References |-> <<"https://a.example">>,
     CVSS |-> <<[V2Score |-> 5, V2Vector |-> "AV:N/AC:L"],
                [V3Score |-> 7, V3Vector |-> "CVSS:3.1/AV:N"]>>]
TrivyFooModerate ==
    [VulnerabilityID |-> "CVE-2024-1", PkgName |-> <<"f","o","o">>,
     InstalledVersion |-> "1.0", Severity |-> <<"m","o","d","e","r","a","t","e">>,
     Title |-> "Foo overflow", Description |-> "a longer text",
     FixedVersion |-> "1.1",
     References |-> <<"https://a.example", "https://a.example">>,
     CVSS |-> <<[V3Score |-> 0], [V3Score |-> 9]>>]
TrivyBarNoSeverity ==
    [VulnerabilityID |-> "CVE-2024-2", PkgName |-> <<"b","a","r">>,
     InstalledVersion |-> "2.0"]
TrivyVulnKinds == {TrivyFooHigh, TrivyFooModerate, TrivyBarNoSeverity}

\* matches of a scanner-B document
GrypeFooHigh ==
    [vulnerability |->
        [id |-> "CVE-2024-1", severity |-> <<"h","i","g","h">>,
         description |-> "a longer text!", fix |-> [versions |-> <<"1.2">>],
         urls |-> <<"https://a.example", "https://b.example">>],
     artifact |-> [name |-> <<"f","o","o">>, version |-> "1.0", type |-> "deb"]]
GrypeFooUpper ==
    [vulnerability |->
        [id |-> "CVE-2024-1", severity |-> <<"L","o","w">>,
         description |-> "brief", fix |-> [versions |-> <<>>],
         urls |-> <<"https://b.example">>],
     artifact |-> [name |-> <<"F","O","O">>, version |-> "1.0", type |-> "npm"]]
GrypeBazNoSeverity ==
    [vulnerability |-> [id |-> "CVE-2024-3", severity |-> <<>>],
     artifact |-> [name |-> <<"b","a","z">>, version |-> "3.0"]]
GrypeMatchKinds == {GrypeFooHigh, GrypeFooUpper, GrypeBazNoSeverity}

\* scanner-A documents without the arrays, or with null for them
TrivyNoResults == [SchemaVersion |-> 2, ArtifactName |-> "app:1"]
TrivyNullResults ==
    [SchemaVersion |-> 2, ArtifactName |-> "app:1", Results |-> NullArray]
TrivyNoVulnerabilities ==
    [SchemaVersion |-> 2, ArtifactName |-> "app:1",
     Results |-> <<[Target |-> "app:1 (debian 12)", Type |-> "debian"]>>]
TrivyNullVulnerabilities ==
    [SchemaVersion |-> 2, ArtifactName |-> "app:1",
     Results |-> <<[Target |-> "app:1 (debian 12)", Type |-> "debian",
                    Vulnerabilities |-> NullArray]>>]

TrivyDocs ==
    {[SchemaVersion |-> 2, ArtifactName |-> "app:1",
      Results |-> <<[Target |-> "app:1 (debian 12)", Type |-> "debian",
                     Vulnerabilities |-> vs]>>] :
        vs \in SeqUpTo(TrivyVulnKinds, MaxVulns)}
    \cup {TrivyNoResults, TrivyNullResults, TrivyNoVulnerabilities,
          TrivyNullVulnerabilities}

\* scanner-B documents without the array, or with null for it
GrypeNoMatches == [source |-> "app:1"]
GrypeNullMatches == [source |-> "app:1", matches |-> NullArray]

GrypeDocs ==
    {[matches |-> ms] : ms \in SeqUpTo(GrypeMatchKinds, MaxVulns)}
    \cup {GrypeNoMatches, GrypeNullMatches}

\* the orders in which a run may iterate the set of the URLs
HashOrders ==
    {<<"https://a.example", "https://b.example">>,
     <<"https://b.example", "https://a.example">>}

MergeInit ==
    /\ trivy_data \in TrivyDocs
    /\ grype_data \in GrypeDocs
    /\ hash_order \in HashOrders
    /\ parsed = NoDoc
    /\ merged_ab = NoDoc /\ merged_ba = NoDoc /\ merged_ss = NoDoc
    /\ output = NoDoc
    /\ pc = "parse"
    /\ IdleScan /\ IdleCompare

\* trivy_vulns = parse_trivy_results(trivy_data);
\* grype_vulns = parse_grype_results(grype_data): the objects made, and the
\* two lists of references to them.  An exception of a parser is not
\* caught: the script ends with a traceback.
Parse ==
    /\ pc = "parse"
    /\ LET t == parse_trivy_results(trivy_data)
           g == parse_grype_results(grype_data)
       IN  IF Raised(t) \/ Raised(g)
           THEN /\ parsed' = parsed
                /\ pc' = "error"
           ELSE /\ parsed' = [heap |-> t \o g,
                              trivy_vulns |-> [i \in DOMAIN t |-> i],
                              grype_vulns |-> [i \in DOMAIN g |-> Len(t) + i]]
                /\ pc' = "merge"
    /\ UNCHANGED <<trivy_data, grype_data, merged_ab, merged_ba, merged_ss,
                   output, hash_order, scanVars, compareVars>>

\* a call of merge_vulnerabilities on the findings as parsed: its arguments
\* and what it returns
Call(first, second) ==
    [first |-> first, second |-> second]
        @@ merge_vulnerabilities(parsed.heap, first, second, hash_order)

\* merged_vulns, stats = merge_vulnerabilities(trivy_vulns, grype_vulns)
MergeAB ==
    /\ pc = "merge"
    /\ merged_ab' = Call(parsed.trivy_vulns, parsed.grype_vulns)
    /\ pc' = "output"
    /\ UNCHANGED <<trivy_data, grype_data, parsed, merged_ba, merged_ss,
                   output, hash_order, scanVars, compareVars>>

\* sys.argv[4] when it is given: None, an empty argument, an image
BaseImages == {Nothing, Some(""), Some("debian:12")}

\* output = create_trivy_compatible_output(merged_vulns, trivy_data);
\* output["MergeStats"] = {...}; output["BaseImage"] = base_image when it
\* is given and not empty; json.dump(output, f)
WriteOutput ==
    /\ pc = "output"
    /\ \E base_image \in BaseImages :
        LET merged_vulns ==
                [i \in DOMAIN merged_ab.merged_vulns |->
                    merged_ab.heap[merged_ab.merged_vulns[i]]]
            created == create_trivy_compatible_output(merged_vulns, trivy_data)
            counted ==
                SetItem(created, "MergeStats",
                        MergeStats(parsed.trivy_vulns, parsed.grype_vulns,
                                   merged_vulns, merged_ab.stats))
        IN  output' = IF TruthyText(base_image)
                      THEN SetItem(counted, "BaseImage", base_image[1])
                      ELSE counted
    /\ pc' = "exchanged"
    /\ UNCHANGED <<trivy_data, grype_data, parsed, merged_ab, merged_ba,
                   merged_ss, hash_order, scanVars, compareVars>>

\* merge_vulnerabilities(grype_vulns, trivy_vulns)
MergeBA ==
    /\ pc = "exchanged"
    /\ merged_ba' = Call(parsed.grype_vulns, parsed.trivy_vulns)
    /\ pc' = "twice"
    /\ UNCHANGED <<trivy_data, grype_data, parsed, merged_ab, merged_ss,
                   output, hash_order, scanVars, compareVars>>

\* merge_vulnerabilities(S, S) for S one of the two lists
MergeSS ==
    /\ pc = "twice"
    /\ \E S \in {parsed.trivy_vulns, parsed.grype_vulns} :
            merged_ss' = Call(S, S)
    /\ pc' = "done"
    /\ UNCHANGED <<trivy_data, grype_data, parsed, merged_ab, merged_ba,
                   output, hash_order, scanVars, compareVars>>

MergeNext == Parse \/ MergeAB \/ WriteOutput \/ MergeBA \/ MergeSS

MergeSpec == MergeInit /\ [][MergeNext]_vars

-----------------------------------------------------------------------------
(* compare.py, main from the command line: the two files are loaded first; *)
(* a file may be missing or hold no JSON, and a snapshot may lack levels   *)
(* and severities.                                                         *)

\* the entries of the snapshots: with counts, with every count zero, and
\* with one count of one level only
CountedEntry(name) ==
    ImageData([image_name |-> name,
               os_level |-> process_grype_results(OutputA)[1],
               app_level |-> process_grype_results(OutputA)[2]])
ZeroEntry(name) ==
    ImageData([image_name |-> name,
               os_level |-> VulnerabilityStats,
               app_level |-> VulnerabilityStats])
PartialEntry(name) == [image |-> name, os_level |-> [critical |-> 1]]
CliEntries ==
    UNION {{CountedEntry(name), ZeroEntry(name), PartialEntry(name)} :
            name \in ComposeImages}

\* the files named on the command line
CliFiles ==
    {MissingFile, InvalidJsonFile}
    \cup {JsonFile([timestamp |-> PreviousTime, images |-> imgs]) :
            imgs \in SeqUpTo(CliEntries, MaxImages)}

CliInit ==
    /\ prev_file \in CliFiles
    /\ curr_file \in CliFiles
    /\ previous = NoDoc
    /\ current = NoDoc
    /\ diff = NoDoc
    /\ markdown = NoDoc
    /\ console = <<>>
    /\ exit_code = NoDoc
    /\ pc = "load_previous"
    /\ IdleScan /\ IdleMerge

\* previous = load_scan_results(previous_file)
LoadPrevious ==
    /\ pc = "load_previous"
    /\ LET loaded == load_scan_results("previous_file", prev_file)
       IN  IF "exit" \in DOMAIN loaded
           THEN /\ console' = Append(console, loaded.line)
                /\ exit_code' = loaded.exit
                /\ pc' = "exit"
                /\ UNCHANGED previous
           ELSE /\ previous' = loaded.value
                /\ pc' = "load_current"
                /\ UNCHANGED <<console, exit_code>>
    /\ UNCHANGED <<current, diff, markdown, prev_file, curr_file, scanVars,
                   mergeVars>>

\* current = load_scan_results(current_file)
LoadCurrent ==
    /\ pc = "load_current"
    /\ LET loaded == load_scan_results("current_file", curr_file)
       IN  IF "exit" \in DOMAIN loaded
           THEN /\ console' = Append(console, loaded.line)
                /\ exit_code' = loaded.exit
                /\ pc' = "exit"
                /\ UNCHANGED current
           ELSE /\ current' = loaded.value
                /\ pc' = "compare"
                /\ UNCHANGED <<console, exit_code>>
    /\ UNCHANGED <<previous, diff, markdown, prev_file, curr_file, scanVars,
                   mergeVars>>

CliNext ==
    \/ LoadPrevious
    \/ LoadCurrent
    \/ CalculateDiff
    \/ PrintComparison
    \/ GenerateMarkdownReport

CliSpec == CliInit /\ [][CliNext]_vars

-----------------------------------------------------------------------------
(* Properties of scan.py, checked under ScanSpec.                          *)

\* C3: in every snapshot save_results_to_json writes, for every image and
\* every severity, total[severity] = os_level[severity] + app_level[severity]
\* (and so for the "total" counter of the three dicts).
C3_TotalIsOsPlusApp ==
    snapshot # NoDoc =>
        \A i \in DOMAIN snapshot.images :
            \A k \in SeveritySet \cup {"total"} :
                snapshot.images[i].total[k]
                    = snapshot.images[i].os_level[k]
                        + snapshot.images[i].app_level[k]

\* a snapshot of two images, one of them with findings of both levels
C3_Witness ==
    /\ snapshot # NoDoc
    /\ Len(snapshot.images) = 2
    /\ \E i \in DOMAIN snapshot.images :
        /\ snapshot.images[i].os_level.critical > 0
        /\ snapshot.images[i].app_level.high > 0
        /\ snapshot.images[i].total.total = 2

-----------------------------------------------------------------------------
(* Properties of process_grype_results, checked under ProcessSpec.         *)

\* the package types of the OS level
OsEcosystems ==
    {<<"d","e","b">>, <<"r","p","m">>, <<"a","p","k">>, <<"j","a","r">>}

\* the package type of a match as written, empty when the match has none
WrittenType(match) ==
    IF "artifact" \in DOMAIN match /\ "type" \in DOMAIN match.artifact
    THEN match.artifact.type ELSE <<>>

\* the findings counted in a VulnerabilityStats
Counted(st) == SumSeq([i \in DOMAIN Severities |-> st[Severities[i]]])

\* C15: process_grype_results counts every match at exactly one level: at
\* the OS level when its package type in lower case is one of the OS
\* package types, at the application level otherwise, a type of neither
\* set and an empty or missing type included; no match is left out.
C15_UnknownTypeIsAppLevel ==
    grype_stats # NoDoc =>
        LET matches == grype_doc.matches
            os == {i \in DOMAIN matches :
                    Lower(WrittenType(matches[i])) \in OsEcosystems}
        IN  /\ Counted(grype_stats[1]) = Cardinality(os)
            /\ Counted(grype_stats[2]) = Len(matches) - Cardinality(os)
            /\ Counted(grype_stats[1]) + Counted(grype_stats[2]) = Len(matches)

\* a document counted with a match of an OS type in upper case and a match
\* without a package type
C15_Witness ==
    /\ grype_stats # NoDoc
    /\ \E i, j \in DOMAIN grype_doc.matches :
        /\ WrittenType(grype_doc.matches[i]) \notin OsEcosystems
        /\ Lower(WrittenType(grype_doc.matches[i])) \in OsEcosystems
        /\ "artifact" \notin DOMAIN grype_doc.matches[j]
    /\ Counted(grype_stats[1]) = 1
    /\ Counted(grype_stats[2]) = 1

\* the severity of a match as written, empty when the match has none
WrittenSeverity(match) ==
    IF "vulnerability" \in DOMAIN match
       /\ "severity" \in DOMAIN match.vulnerability
    THEN match.vulnerability.severity ELSE <<>>

\* the counter of a match: its severity in lower case when that is one of
\* the five, "unknown" otherwise
CounterOf(match) ==
    IF \E severity \in SeveritySet \ {"unknown"} :
            Lower(WrittenSeverity(match)) = Chars[severity]
    THEN CHOOSE severity \in SeveritySet \ {"unknown"} :
            Lower(WrittenSeverity(match)) = Chars[severity]
    ELSE "unknown"

\* C29: process_grype_results counts every match once: the six counters of
\* the OS level and the six of the application level add up to the number
\* of matches, each match is counted under its severity, and a match whose
\* severity is missing or is none of the five is counted under unknown.
C29_EveryMatchCountedOnce ==
    grype_stats # NoDoc =>
        LET matches == grype_doc.matches
        IN  /\ Counted(grype_stats[1]) + Counted(grype_stats[2]) = Len(matches)
            /\ \A severity \in SeveritySet :
                    grype_stats[1][severity] + grype_stats[2][severity]
                    = Cardinality({i \in DOMAIN matches :
                                    CounterOf(matches[i]) = severity})

\* a document counted with a match without a severity and a match with a
\* severity that is none of the five
C29_Witness ==
    /\ grype_stats # NoDoc
    /\ \E i, j \in DOMAIN grype_doc.matches :
        /\ "vulnerability" \notin DOMAIN grype_doc.matches[i]
        /\ WrittenSeverity(grype_doc.matches[j]) = <<"b","o","g","u","s">>
    /\ grype_stats[1].unknown = 1
    /\ grype_stats[2].unknown = 1

-----------------------------------------------------------------------------
(* Properties of compare.py, checked under Spec.                           *)

\* the image identifiers of a snapshot
ImageIds(doc) == {doc.images[i].image : i \in DOMAIN doc.images}

\* the entry of the drift for an image identifier
DriftOf(image) ==
    diff.images[CHOOSE i \in DOMAIN diff.images : diff.images[i].image = image]

\* the field of a drift entry that holds the deltas of a level
ChangeField ==
    [os_level |-> "os_level_change", app_level |-> "app_level_change",
     total |-> "total_change"]

\* C2: for every level and severity, the delta of the drift's summary is the
\* sum of the per-image deltas over all images of the drift (an image with
\* no delta stored for the severity adding 0).
C2_SummaryIsSumOfImageDeltas ==
    diff # NoDoc =>
        \A level \in DOMAIN ChangeField : \A severity \in SeveritySet :
            diff.summary[level][severity]
                = SumSeq([i \in DOMAIN diff.images |->
                            Get(diff.images[i][ChangeField[level]], severity, 0)])

\* C4: every image identifier of either snapshot has exactly one entry in
\* the drift; its status is "compared" when both snapshots hold it,
\* "removed" when only the previous one does, "new" when only the current
\* one does, and never anything else.
C4_OneEntryOneStatus ==
    diff # NoDoc =>
        /\ {diff.images[i].image : i \in DOMAIN diff.images}
                = ImageIds(previous) \cup ImageIds(current)
        /\ \A i, j \in DOMAIN diff.images :
                diff.images[i].image = diff.images[j].image => i = j
        /\ \A i \in DOMAIN diff.images :
            LET d == diff.images[i]
                in_prev == d.image \in ImageIds(previous)
                in_curr == d.image \in ImageIds(current)
            IN  /\ d.status \in {"new", "removed", "compared"}
                /\ d.status = "compared" <=> (in_prev /\ in_curr)
                /\ d.status = "removed" <=> (in_prev /\ ~in_curr)
                /\ d.status = "new" <=> (~in_prev /\ in_curr)

\* a drift that holds an image of each of the three statuses
C4_Witness ==
    /\ diff # NoDoc
    /\ \A status \in {"new", "removed", "compared"} :
        \E i \in DOMAIN diff.images : diff.images[i].status = status

\* C8: an image that only one of the two snapshots holds has status "new" or
\* "removed", and its os_level_change, app_level_change and total_change
\* each hold the value 0 under every one of the six severities.
C8_OneSidedDeltasAreZero ==
    diff # NoDoc =>
        \A i \in DOMAIN diff.images :
            LET d == diff.images[i]
            IN  ~(d.image \in ImageIds(previous) /\ d.image \in ImageIds(current))
                =>  /\ d.status \in {"new", "removed"}
                    /\ \A level \in DOMAIN ChangeField :
                        \A severity \in SeveritySet :
                            /\ severity \in DOMAIN d[ChangeField[level]]
                            /\ d[ChangeField[level]][severity] = 0

\* the name:tag of an image identifier: what follows its last "/"
NameTag(image) ==
    LET slashes == {i \in DOMAIN image : image[i] = "/"}
        last == CHOOSE i \in slashes : \A j \in slashes : j <= i
    IN  IF slashes = {} THEN image ELSE SubSeq(image, last + 1, Len(image))

\* the pairs of a previous and a current image whose identifiers differ and
\* whose names are the same once the registry and the path are taken off
CrossRegistryPairs ==
    {pair \in ImageIds(previous) \X ImageIds(current) :
        /\ pair[1] # pair[2]
        /\ NameTag(pair[1]) = NameTag(pair[2])}

\* the identifiers of a snapshot that have the name of the identifier given
SameName(doc, image) ==
    {other \in ImageIds(doc) : NameTag(other) = NameTag(image)}

\* C9 as stated: the drift pairs the two images of a cross-registry pair:
\* both are reported with status "compared", not as one "removed" and one
\* "new".
C9_DriftPairsAcrossRegistries ==
    diff # NoDoc =>
        \A pair \in CrossRegistryPairs :
            /\ DriftOf(pair[1]).status = "compared"
            /\ DriftOf(pair[2]).status = "compared"

\* C9 as the code has it: the Markdown report pairs the two images, the
\* drift does not.  The summary table has exactly one row for their name,
\* and when they are the only images of that name in their snapshots the
\* row shows both raw identifiers, the previous one first.  The drift
\* matches by the exact identifier: the previous image is "removed" unless
\* the current snapshot holds the same identifier, the current image is
\* "new" unless the previous snapshot holds the same identifier.
C9_ReportPairsAcrossRegistries ==
    markdown # NoDoc =>
        \A pair \in CrossRegistryPairs :
            LET name == NameTag(pair[1])
                rows == {i \in DOMAIN markdown.summary_table :
                            markdown.summary_table[i].image_name = name}
            IN  /\ Cardinality(rows) = 1
                /\ (SameName(previous, pair[1]) = {pair[1]}
                        /\ SameName(current, pair[2]) = {pair[2]})
                    => \A i \in rows :
                        markdown.summary_table[i].image_display
                            = <<pair[1], pair[2]>>
                /\ DriftOf(pair[1]).status
                    = IF pair[1] \in ImageIds(current) THEN "compared"
                      ELSE "removed"
                /\ DriftOf(pair[2]).status
                    = IF pair[2] \in ImageIds(previous) THEN "compared"
                      ELSE "new"

\* a report on one image that moved to another registry between the scans,
\* beside an image found in the current snapshot only
C9_Witness ==
    /\ markdown # NoDoc
    /\ \E pair \in CrossRegistryPairs :
        /\ SameName(previous, pair[1]) = {pair[1]}
        /\ SameName(current, pair[2]) = {pair[2]}
        /\ DriftOf(pair[1]).status = "removed"
        /\ DriftOf(pair[2]).status = "new"
    /\ Cardinality(ImageIds(current)) = 2

\* C10: the Markdown report has a row in the summary table for every image
\* name found in both snapshots, and a breakdown section for such a name
\* exactly when one of the six per-severity totals of the image differs
\* between the two snapshots.
C10_BreakdownIffAnySeverityDiffers ==
    markdown # NoDoc =>
        LET prev_by_name == ByName(previous.images)
            curr_by_name == ByName(current.images)
            matched == DOMAIN prev_by_name \cap DOMAIN curr_by_name
            sections == {markdown.breakdown[i].image_name :
                            i \in DOMAIN markdown.breakdown}
        IN  /\ {markdown.summary_table[i].image_name :
                    i \in DOMAIN markdown.summary_table} = matched
            /\ \A name \in matched :
                name \in sections
                    <=> \E severity \in SeveritySet :
                            prev_by_name[name].img.total[severity]
                                # curr_by_name[name].img.total[severity]

\* the report print_comparison printed
Report ==
    console[CHOOSE i \in DOMAIN console : "report" \in DOMAIN console[i]].report

\* the entries of a snapshot for an image identifier
Entries(doc, image) ==
    {doc.images[i] : i \in {j \in DOMAIN doc.images : doc.images[j].image = image}}

\* the sign a delta is to show for a count that went from before to after
SignOf(before, after) ==
    IF after < before THEN "-" ELSE IF after > before THEN "+" ELSE "0"

\* the sign of a number, and the sign a formatted delta shows
SignOfNumber(n) == SignOf(0, n)
SignShown(text) ==
    IF text[1] = "-" THEN "-"
    ELSE IF \A i \in DOMAIN text : text[i] \in {"+", "0", " "} THEN "0"
    ELSE "+"

\* the key findings of the report on one subject, as <<label, symbol>>
Findings(what) ==
    {<<Report.key_findings[i].label, Report.key_findings[i].symbol>> :
        i \in {j \in DOMAIN Report.key_findings :
                Report.key_findings[j].what = what}}

\* the finding the sign convention asks for a change of a subject
FindingFor(change, remediated, introduced) ==
    IF change < 0 THEN {<<remediated, "check">>}
    ELSE IF change > 0 THEN {<<introduced, "alarm">>}
    ELSE {}

\* the sign convention in the drift: a delta of a compared image has the
\* sign of current minus previous
C11_Drift ==
    \A i \in DOMAIN diff.images :
        diff.images[i].status = "compared" =>
            \E p \in Entries(previous, diff.images[i].image) :
            \E c \in Entries(current, diff.images[i].image) :
                \A level \in DOMAIN ChangeField : \A severity \in SeveritySet :
                    SignOfNumber(diff.images[i][ChangeField[level]][severity])
                        = SignOf(p[level][severity], c[level][severity])

\* the sign convention in the per-image lines of the console: a line shows
\* a delta of the image with its sign, "check" when negative and "alarm"
\* when positive
C11_ConsoleLines ==
    \A i \in DOMAIN Report.images : \A k \in DOMAIN Report.images[i] :
        LET line == Report.images[i][k]
        IN  line.kind = "change" =>
                \E field \in {"os_level_change", "app_level_change"} :
                    LET delta == diff.images[i][field][line.sev]
                    IN  /\ delta # 0
                        /\ SignShown(line.val) = SignOfNumber(delta)
                        /\ line.symbol = IF delta < 0 THEN "check" ELSE "alarm"

\* the sign convention in the key findings of the console: a count of the
\* summary that fell is "Remediated", one that rose is "Introduced"
C11_KeyFindings ==
    LET change(level, k) ==
            current.summary[level][k] - previous.summary[level][k]
    IN  /\ Findings("Critical")
            = FindingFor(change("total", "critical"), "Remediated", "Introduced")
        /\ Findings("High")
            = FindingFor(change("total", "high"), "Remediated", "Introduced")
        /\ Findings("OS/Container-level")
            = FindingFor(change("os_level", "total"), "Remediated", "Introduced")
        /\ Findings("Application-level")
            = FindingFor(change("app_level", "total"), "Remediated", "Introduced")
        /\ Findings("Overall")
            = FindingFor(change("total", "total"), "remediated", "introduced")

\* the sign convention in the Markdown report: every delta has the sign of
\* the after value minus the before value of its row
C11_Markdown ==
    /\ \A i \in DOMAIN markdown.summary_table :
        LET row == markdown.summary_table[i]
        IN  /\ SignShown(row.change_total)
                = SignOf(row.before_total, row.after_total)
            /\ \A k \in DOMAIN row.change :
                SignShown(row.change[k]) = SignOf(row.before[k], row.after[k])
    /\ \A i \in DOMAIN markdown.breakdown :
        LET section == markdown.breakdown[i]
        IN  /\ SignShown(section.total.delta)
                = SignOf(section.total.before, section.total.after)
            /\ \A k \in DOMAIN section.rows :
                SignShown(section.rows[k].delta)
                    = SignOf(section.rows[k].before, section.rows[k].after)

\* C11: on every surface (the drift, the per-image lines and the key
\* findings of the console, the deltas of the Markdown report) a count that
\* fell from previous to current shows as a negative delta, labelled as
\* remediated, and a count that rose as a positive delta, labelled as
\* introduced; no surface shows the opposite sign or label.
C11_SignConvention ==
    markdown # NoDoc =>
        C11_Drift /\ C11_ConsoleLines /\ C11_KeyFindings /\ C11_Markdown

\* a comparison in which the critical count of an image fell and another
\* count rose: the drift has the negative delta, the console has the
\* "Remediated" finding on Critical and an "Introduced" finding
C11_Witness ==
    /\ markdown # NoDoc
    /\ \E i \in DOMAIN diff.images :
        /\ diff.images[i].status = "compared"
        /\ diff.images[i].total_change.critical < 0
    /\ Findings("Critical") = {<<"Remediated", "check">>}
    /\ Findings("Application-level") = {<<"Introduced", "alarm">>}
    /\ \E i \in DOMAIN markdown.breakdown :
        \E k \in DOMAIN markdown.breakdown[i].rows :
            markdown.breakdown[i].rows[k].delta[1] = "-"

\* the delta cells of the Markdown report, each as <<text, before, after>>
MarkdownDeltaCells ==
    UNION {{<<markdown.summary_table[i].change_total,
              markdown.summary_table[i].before_total,
              markdown.summary_table[i].after_total>>}
           \cup {<<markdown.summary_table[i].change[k],
                   markdown.summary_table[i].before[k],
                   markdown.summary_table[i].after[k]>> :
                    k \in DOMAIN markdown.summary_table[i].change} :
            i \in DOMAIN markdown.summary_table}
    \cup
    UNION {{<<markdown.breakdown[i].total.delta,
              markdown.breakdown[i].total.before,
              markdown.breakdown[i].total.after>>}
           \cup {<<markdown.breakdown[i].rows[k].delta,
                   markdown.breakdown[i].rows[k].before,
                   markdown.breakdown[i].rows[k].after>> :
                    k \in DOMAIN markdown.breakdown[i].rows} :
            i \in DOMAIN markdown.breakdown}

\* C12: every delta cell of the Markdown report starts with "+" for a
\* positive delta, with "-" for a negative delta, and is the plain "0",
\* without a sign, for a delta of zero.
C12_ZeroDeltaUnsigned ==
    markdown # NoDoc =>
        \A cell \in MarkdownDeltaCells :
            LET text == cell[1]
                delta == cell[3] - cell[2]
            IN  /\ delta > 0 => text[1] = "+"
                /\ delta < 0 => text[1] = "-"
                /\ delta = 0 => text = <<"0">>

\* the number of reports on the console
ReportsOnConsole ==
    Cardinality({i \in DOMAIN console : "report" \in DOMAIN console[i]})

ShownInSummary ==
    UNION {Range(markdown.summary_table[i].image_display) :
            i \in DOMAIN markdown.summary_table}

\* C27: the Markdown report loses no matched image to its key without the
\* registry: every image identifier found in both snapshots is shown in a
\* row of the summary table, also when the snapshot holds another image of
\* the same name:tag under another registry path.
C27_NoMatchedImageLost ==
    markdown # NoDoc =>
        \A image \in ImageIds(previous) \cap ImageIds(current) :
            image \in ShownInSummary

\* the lines of a kind among the lines printed for an image
LinesOfKind(lines, kind) == {i \in DOMAIN lines : lines[i].kind = kind}

\* the deltas of the two levels of an entry of the drift that are not 0
NonZeroDeltas(d) ==
    {<<field, severity>> \in
        {"os_level_change", "app_level_change"} \X SeveritySet :
            d[field][severity] # 0}

\* C28: for every image compared, the console report prints a line of a
\* severity delta or the line "No changes"; "No changes" only when every
\* delta of the OS level and of the application level, over the six
\* severities, is 0; an image with a delta that is not 0 has it printed.
C28_DeltaShownOrNoChanges ==
    (diff # NoDoc /\ ReportsOnConsole > 0) =>
        \A i \in DOMAIN diff.images :
            diff.images[i].status = "compared" =>
                LET lines == Report.images[i]
                IN  /\ \/ LinesOfKind(lines, "change") # {}
                       \/ LinesOfKind(lines, "no_changes") # {}
                    /\ LinesOfKind(lines, "no_changes") # {} =>
                            NonZeroDeltas(diff.images[i]) = {}
                    /\ \A delta \in NonZeroDeltas(diff.images[i]) :
                            \E j \in LinesOfKind(lines, "change") :
                                /\ lines[j].sev = delta[2]
                                /\ lines[j].val
                                    = PlusD(diff.images[i][delta[1]][delta[2]])

-----------------------------------------------------------------------------
(* Properties of compare.py run from the command line, checked under       *)
(* CliSpec.                                                                *)

\* the file of an argument of the command line
FileOf ==
    [previous_file |-> prev_file, current_file |-> curr_file]

\* a file that cannot be loaded
Unreadable(file) == file = MissingFile \/ file = InvalidJsonFile

\* the first argument whose file cannot be loaded, if there is one
Offending ==
    IF Unreadable(prev_file) THEN <<"previous_file">>
    ELSE IF Unreadable(curr_file) THEN <<"current_file">>
    ELSE <<>>

\* the lines of the console that are comparison reports
ReportsPrinted == {i \in DOMAIN console : "report" \in DOMAIN console[i]}

\* C16: when the previous or the current file is missing or is not JSON,
\* compare.py exits with a status other than zero after a line that names
\* that file, with no comparison report printed and no Markdown written; the
\* Markdown is written only when both files have been loaded.
C16_UnreadableFileExitsBeforeReport ==
    /\ Offending # <<>> =>
        /\ ReportsPrinted = {}
        /\ markdown = NoDoc
        /\ diff = NoDoc
        /\ pc \in {"load_previous", "load_current", "exit"}
        /\ pc = "exit" =>
            /\ exit_code # 0
            /\ Len(console) = 1
            /\ console[1].file_path = Offending[1]
            /\ console[1].error =
                IF FileOf[Offending[1]] = MissingFile
                THEN "File not found" ELSE "Invalid JSON in file"
    /\ (markdown # NoDoc \/ ReportsPrinted # {}) =>
        /\ prev_file = JsonFile(previous)
        /\ curr_file = JsonFile(current)
        /\ pc # "exit"
    /\ (Offending = <<>> /\ pc = "done") => markdown # NoDoc

\* the run has exited on a current file that is not JSON, after the previous
\* file was loaded
C16_Witness ==
    /\ pc = "exit"
    /\ exit_code = 1
    /\ prev_file = JsonFile(previous)
    /\ Len(previous.images) > 0
    /\ curr_file = InvalidJsonFile
    /\ console = <<[error |-> "Invalid JSON in file", file_path |-> "current_file"]>>

\* the count of an entry at a level and severity, 0 when the entry does not
\* have the level or the level does not have the severity
CountAt(entry, level, severity) ==
    IF level \in DOMAIN entry /\ severity \in DOMAIN entry[level]
    THEN entry[level][severity] ELSE 0

\* an entry none of whose counts is above zero
NoCounts(entry) ==
    \A level \in DOMAIN ChangeField, severity \in SeveritySet :
        CountAt(entry, level, severity) = 0

\* C19: an image with an entry in both snapshots is compared, and each of
\* its deltas is the current count minus the previous count with a missing
\* level or severity counted as 0; an image with an entry in one snapshot
\* only is new or removed; all of this also when the counts are zero or
\* missing.
C19_MissingCountsAreZero ==
    diff # NoDoc =>
        \A i \in DOMAIN diff.images :
            LET d == diff.images[i]
                p == Entries(previous, d.image)
                c == Entries(current, d.image)
            IN  /\ d.status =
                    IF p # {} /\ c # {} THEN "compared"
                    ELSE IF c # {} THEN "new" ELSE "removed"
                /\ d.status = "compared" =>
                    \E pe \in p, ce \in c :
                        \A level \in DOMAIN ChangeField, severity \in SeveritySet :
                            d[ChangeField[level]][severity] =
                                CountAt(ce, level, severity)
                                - CountAt(pe, level, severity)

\* a drift with an image compared between an entry without the application
\* level and an entry with counts, and an image that is new with no counts
C19_Witness ==
    /\ diff # NoDoc
    /\ \E i, j \in DOMAIN diff.images :
        /\ diff.images[i].status = "compared"
        /\ \E pe \in Entries(previous, diff.images[i].image) :
            "app_level" \notin DOMAIN pe
        /\ diff.images[i].app_level_change.high = 1
        /\ diff.images[i].os_level_change.critical = 1
        /\ diff.images[j].status = "new"
        /\ \A ce \in Entries(current, diff.images[j].image) : NoCounts(ce)

-----------------------------------------------------------------------------
(* Properties of merge-scan-results.py, checked under MergeSpec.           *)

\* the MergeKey of a finding: id, package name in lower case, version
MergeKey(f) == <<f.id, Lower(f.package), f.version>>

\* the findings a call of the merge returns, in the order of the list
Returned(call) ==
    [i \in DOMAIN call.merged_vulns |-> call.heap[call.merged_vulns[i]]]

\* the findings of a list given to a call, as they were parsed
Given(refs) == {parsed.heap[ref] : ref \in Range(refs)}

\* the MergeKeys of a set of findings, and of the findings a call returns
KeysOf(findings) == {MergeKey(f) : f \in findings}
ReturnedKeys(call) == KeysOf(Range(Returned(call)))

\* the scanners found_by names for a key in what a call returns
FoundBy(call, key) ==
    UNION {Range(f.found_by) :
            f \in {g \in Range(Returned(call)) : MergeKey(g) = key}}

\* what a call returns has one finding per MergeKey of its two lists, made
\* of findings of that key alone
OnePerKey(call) ==
    LET out == Returned(call)
        given == Given(call.first) \cup Given(call.second)
    IN  /\ ReturnedKeys(call) = KeysOf(given)
        /\ \A i, j \in DOMAIN out :
                MergeKey(out[i]) = MergeKey(out[j]) => i = j
        /\ \A i \in DOMAIN out :
            LET same == {f \in given : MergeKey(f) = MergeKey(out[i])}
            IN  /\ out[i].description \in {f.description : f \in same}
                /\ out[i].fixed_version \in {f.fixed_version : f \in same}
                /\ out[i].severity \in {f.severity : f \in same}
                /\ Range(out[i].references)
                        \subseteq UNION {Range(f.references) : f \in same}

\* C1: the list merge_vulnerabilities returns for two lists of findings
\* holds exactly one finding per distinct MergeKey of the two lists: no key
\* twice, no key missing, and no finding made of findings of another key.
C1_OneFindingPerMergeKey ==
    /\ merged_ab # NoDoc => OnePerKey(merged_ab)
    /\ merged_ba # NoDoc => OnePerKey(merged_ba)

\* a merge of lists of which both hold one key, in different case of the
\* package name, and one holds another key as well
C1_Witness ==
    /\ merged_ab # NoDoc
    /\ \E f \in Given(merged_ab.first) : \E g \in Given(merged_ab.second) :
        /\ MergeKey(f) = MergeKey(g)
        /\ f.package # g.package
    /\ Len(merged_ab.merged_vulns) = 2
    /\ Len(merged_ab.first) + Len(merged_ab.second) > 2

\* C5: merging a list with itself returns no MergeKey twice, counts every
\* finding of the list in "both", and counts none in "trivy_only" or
\* "grype_only".
C5_SelfMerge ==
    merged_ss # NoDoc =>
        LET out == Returned(merged_ss)
        IN  /\ \A i, j \in DOMAIN out :
                    MergeKey(out[i]) = MergeKey(out[j]) => i = j
            /\ ReturnedKeys(merged_ss) = KeysOf(Given(merged_ss.first))
            /\ merged_ss.stats.both = Len(merged_ss.first)
            /\ merged_ss.stats.trivy_only = 0
            /\ merged_ss.stats.grype_only = 0

\* a list of two findings with different keys, merged with itself
C5_Witness ==
    /\ merged_ss # NoDoc
    /\ Len(merged_ss.first) = 2
    /\ Len(merged_ss.merged_vulns) = 2
    /\ merged_ss.stats.both = 2

SeverityEnum == {Upper(Chars[severity]) : severity \in SeveritySet}

\* an array of a document, a missing or null one taken as empty
RawArray(d, k) == IF k \in DOMAIN d /\ ~IsNone(d[k]) THEN d[k] ELSE <<>>

\* the vulnerabilities the scanner-A document lists, and the matches the
\* scanner-B document lists
TrivyRawCount ==
    LET rs == RawArray(trivy_data, "Results")
    IN  SumSeq([i \in DOMAIN rs |-> Len(RawArray(rs[i], "Vulnerabilities"))])
GrypeRawCount == Len(RawArray(grype_data, "matches"))

\* C7: every finding the two parsers return has a severity of the six
\* CRITICAL, HIGH, MEDIUM, LOW, NEGLIGIBLE, UNKNOWN, whatever the case and
\* the value of the scanner's severity; no finding is dropped.
C7_SeverityInEnum ==
    parsed # NoDoc =>
        /\ Len(parsed.heap) = TrivyRawCount + GrypeRawCount
        /\ \A i \in DOMAIN parsed.heap : parsed.heap[i].severity \in SeverityEnum

\* C13: merge_vulnerabilities leaves the findings of its two lists as they
\* were: after the call every finding object given to it has the fields and
\* values it had before, and every finding returned is a new object.
C13_SourcesNotMutated ==
    merged_ab # NoDoc =>
        LET given == Range(merged_ab.first) \cup Range(merged_ab.second)
        IN  /\ \A ref \in given : merged_ab.heap[ref] = parsed.heap[ref]
            /\ \A i \in DOMAIN merged_ab.merged_vulns :
                    merged_ab.merged_vulns[i] \notin given

\* C14: every finding merge_vulnerabilities returns has a found_by list
\* that is not empty, names no scanner twice, and names the first scanner
\* before the second.
C14_FoundByDuplicateFree ==
    merged_ab # NoDoc =>
        \A f \in Range(Returned(merged_ab)) :
            /\ f.found_by # <<>>
            /\ \A i, j \in DOMAIN f.found_by :
                    f.found_by[i] = f.found_by[j] => i = j
            /\ \A i, j \in DOMAIN f.found_by :
                    (f.found_by[i] = "trivy" /\ f.found_by[j] = "grype") => i < j

\* the trivy_only of a call is the number of findings returned whose
\* found_by is ["trivy"], and the number of keys of the first list that the
\* second list does not hold
TrivyOnlyCounted(call) ==
    /\ call.stats.trivy_only
        = Cardinality({i \in DOMAIN call.merged_vulns :
                        Returned(call)[i].found_by = <<"trivy">>})
    /\ call.stats.trivy_only
        = Cardinality(KeysOf(Given(call.first)) \ KeysOf(Given(call.second)))

\* C20: the trivy_only statistic is the number of returned findings whose
\* final found_by is exactly the first scanner, that is the number of
\* distinct MergeKeys the first list holds and the second does not; a
\* finding merged with one of the second list is not counted.
C20_TrivyOnlyIsFinalCount ==
    /\ merged_ab # NoDoc => TrivyOnlyCounted(merged_ab)
    /\ merged_ba # NoDoc => TrivyOnlyCounted(merged_ba)

\* a merge that left one key to the first list alone and merged the two
\* findings of the second list into another
C20_Witness ==
    /\ merged_ab # NoDoc
    /\ merged_ab.stats.trivy_only = 1
    /\ merged_ab.stats.both = 2
    /\ Len(merged_ab.merged_vulns) = 2

\* C17: a document whose top-level array (Results, matches) or whose
\* Vulnerabilities array of a result is missing or null gives no finding
\* for that part, and neither parser raises an error.
C17_NullArraysGiveNoFindings ==
    (trivy_data # NoDoc /\ pc # "parse") =>
        /\ pc # "error"
        /\ parsed # NoDoc
        /\ Len(parsed.trivy_vulns) = TrivyRawCount
        /\ Len(parsed.grype_vulns) = GrypeRawCount

\* the vulnerabilities of the results of the scanner-A document, in the
\* order of the document
RECURSIVE RawVulnerabilities(_)
RawVulnerabilities(rs) ==
    IF rs = <<>> THEN <<>>
    ELSE RawArray(Head(rs), "Vulnerabilities") \o RawVulnerabilities(Tail(rs))
TrivyRaw == RawVulnerabilities(RawArray(trivy_data, "Results"))

\* the CVSS sources of a vulnerability, in map order, and those of them
\* that supply a field
CvssSources(v) == IF "CVSS" \in DOMAIN v THEN v.CVSS ELSE <<>>
Supplying(v, field) ==
    {i \in DOMAIN CvssSources(v) : field \in DOMAIN CvssSources(v)[i]}

\* the value of a field in the first source that supplies it
FirstSupplied(v, field) ==
    IF Supplying(v, field) = {} THEN Nothing
    ELSE LET first == CHOOSE i \in Supplying(v, field) :
                        \A j \in Supplying(v, field) : i <= j
         IN  Some(CvssSources(v)[first][field])

\* the finding the scanner-A parser made of the i-th vulnerability
TrivyFinding(i) == parsed.heap[parsed.trivy_vulns[i]]

\* C21: cvss_v2_score and cvss_v3_score of a scanner-A finding are each the
\* value of the first CVSS source, in map order, that supplies that score;
\* a later source never replaces it, whatever the number, 0 included.
C21_FirstScoreIsKept ==
    parsed # NoDoc =>
        \A i \in DOMAIN parsed.trivy_vulns :
            /\ TrivyFinding(i).cvss_v2_score = FirstSupplied(TrivyRaw[i], "V2Score")
            /\ TrivyFinding(i).cvss_v3_score = FirstSupplied(TrivyRaw[i], "V3Score")

\* C22: v3 is preferred over v2 in whatever order the sources come:
\* cvss_score is the v3 score when a source supplies one and the v2 score
\* otherwise, and cvss_vector is a V3 vector when a source supplies one, a
\* V2 vector only when none does.
C22_V3PreferredInAnyOrder ==
    parsed # NoDoc =>
        \A i \in DOMAIN parsed.trivy_vulns :
            LET v == TrivyRaw[i]
                f == TrivyFinding(i)
                Vectors(field) ==
                    {Some(CvssSources(v)[j][field]) : j \in Supplying(v, field)}
            IN  /\ f.cvss_score =
                    IF Supplying(v, "V3Score") # {}
                    THEN f.cvss_v3_score ELSE f.cvss_v2_score
                /\ IF Supplying(v, "V3Vector") # {}
                   THEN f.cvss_vector \in Vectors("V3Vector")
                   ELSE IF Supplying(v, "V2Vector") # {}
                        THEN f.cvss_vector \in Vectors("V2Vector")
                        ELSE f.cvss_vector = Nothing

\* the findings of a list given to a call that have a key, as they were
\* parsed and in the order of the list
WithKey(refs, key) ==
    LET HasKey(f) == MergeKey(f) = key
    IN  SelectSeq([i \in DOMAIN refs |-> parsed.heap[refs[i]]], HasKey)

\* for a key of a call: the finding that is the entry of the key when the
\* first finding of the second list is merged into it, and the findings of
\* the second list merged into the entry, in their order
EntryOf(call, key) ==
    IF WithKey(call.first, key) # <<>>
    THEN WithKey(call.first, key)[Len(WithKey(call.first, key))]
    ELSE WithKey(call.second, key)[1]
MergedInto(call, key) ==
    IF WithKey(call.first, key) # <<>>
    THEN WithKey(call.second, key)
    ELSE Tail(WithKey(call.second, key))

\* the description of an entry after the findings news are merged into it
\* one by one: each time the longer one, the existing one on a tie
RECURSIVE LongerOf(_, _)
LongerOf(description, news) ==
    IF news = <<>> THEN description
    ELSE LongerOf(IF Len(Head(news).description) > Len(description)
                  THEN Head(news).description ELSE description,
                  Tail(news))

\* the descriptions a call returns are those of LongerOf
DescriptionsKept(call) ==
    \A f \in Range(Returned(call)) :
        f.description =
            LongerOf(EntryOf(call, MergeKey(f)).description,
                     MergedInto(call, MergeKey(f)))

\* C23: when a finding of the second scanner is merged into an entry, the
\* description of the entry becomes the new one only when the new one is
\* strictly longer; on equal length and when it is shorter the existing one
\* stays.
C23_LongerDescriptionOnly ==
    /\ merged_ab # NoDoc => DescriptionsKept(merged_ab)
    /\ merged_ba # NoDoc => DescriptionsKept(merged_ba)

\* an entry into which two findings were merged: the first with another
\* description of the same length, the second with a longer one
C23_Witness ==
    /\ merged_ab # NoDoc
    /\ \E f \in Range(Returned(merged_ab)) :
        LET existing == EntryOf(merged_ab, MergeKey(f))
            news == MergedInto(merged_ab, MergeKey(f))
        IN  /\ Len(news) = 2
            /\ news[1].description # existing.description
            /\ Len(news[1].description) = Len(existing.description)
            /\ Len(news[2].description) > Len(existing.description)
            /\ f.description = news[2].description

\* the fixed version of an entry after the findings news are merged into it
\* one by one: filled when it is empty, kept otherwise
RECURSIVE FirstFixedVersion(_, _)
FirstFixedVersion(fixed_version, news) ==
    IF news = <<>> THEN fixed_version
    ELSE FirstFixedVersion(IF fixed_version = ""
                           THEN Head(news).fixed_version ELSE fixed_version,
                           Tail(news))

\* the four CVSS fields of a finding
CvssFields == {"cvss_score", "cvss_v2_score", "cvss_v3_score", "cvss_vector"}

\* the fixed version and the CVSS fields a call returns are those of the
\* first writer
FirstWriterWins(call) ==
    \A f \in Range(Returned(call)) :
        LET existing == EntryOf(call, MergeKey(f))
            news == MergedInto(call, MergeKey(f))
        IN  /\ f.fixed_version = FirstFixedVersion(existing.fixed_version, news)
            /\ existing.fixed_version # "" =>
                    f.fixed_version = existing.fixed_version
            /\ \A field \in CvssFields : f[field] = existing[field]

\* C24: when a finding of the second scanner is merged into an entry, the
\* fixed version of the entry is filled from it only when the entry has
\* none and the finding has one, a fixed version the entry has is never
\* replaced, and the four CVSS fields of the entry stay as they are.
C24_FirstWriterWins ==
    /\ merged_ab # NoDoc => FirstWriterWins(merged_ab)
    /\ merged_ba # NoDoc => FirstWriterWins(merged_ba)

\* an entry with a fixed version and CVSS values into which a finding with
\* another fixed version was merged
C24_Witness ==
    /\ merged_ab # NoDoc
    /\ \E f \in Range(Returned(merged_ab)) :
        LET existing == EntryOf(merged_ab, MergeKey(f))
            news == MergedInto(merged_ab, MergeKey(f))
        IN  /\ news # <<>>
            /\ existing.fixed_version # ""
            /\ news[1].fixed_version # ""
            /\ news[1].fixed_version # existing.fixed_version
            /\ f.fixed_version = existing.fixed_version
            /\ existing.cvss_score # Nothing
            /\ f.cvss_score = existing.cvss_score

\* the references a call returns hold no URL twice, and those of a finding
\* of both lists are the URLs of the findings of its key
ReferencesAreSets(call) ==
    \A f \in Range(Returned(call)) :
        /\ \A i, j \in DOMAIN f.references :
                f.references[i] = f.references[j] => i = j
        /\ MergedInto(call, MergeKey(f)) # <<>> =>
                Range(f.references) =
                    UNION {Range(g.references) :
                            g \in {EntryOf(call, MergeKey(f))}
                                  \cup Range(MergedInto(call, MergeKey(f)))}

\* C25: every finding merge_vulnerabilities returns, of one scanner or of
\* both, has references that hold no URL twice; those of a finding of both
\* scanners are exactly the URLs of the references of the input findings.
C25_ReferencesDuplicateFree ==
    merged_ab # NoDoc => ReferencesAreSets(merged_ab)

\* C26: the statistics of a merge partition what it returns: trivy_only +
\* grype_only + found_by_both is merged_count, the number of findings
\* returned, also when a list holds a MergeKey more than once.
C26_StatsPartitionOutput ==
    merged_ab # NoDoc =>
        merged_ab.stats.trivy_only + merged_ab.stats.grype_only
            + merged_ab.stats.both
        = Len(merged_ab.merged_vulns)

\* the places of the document written where a finding is serialized: the
\* result and the index in its Vulnerabilities of every vulnerability with
\* the MergeKey of the finding
PlacesOf(f) ==
    {<<r, i>> \in
        UNION {{r} \X DOMAIN output.Results[r].Vulnerabilities :
                r \in DOMAIN output.Results} :
        LET v == output.Results[r].Vulnerabilities[i]
        IN  <<v.VulnerabilityID, Lower(v.PkgName), v.InstalledVersion>>
                = MergeKey(f)}

\* the number of vulnerabilities serialized
SerializedCount ==
    SumSeq([r \in DOMAIN output.Results |->
                Len(output.Results[r].Vulnerabilities)])

\* C30: the document written loses and repeats no finding: every finding
\* merge_vulnerabilities returned is once among the Vulnerabilities of one
\* Result, the one of its target, no target has two Results, and the
\* number of vulnerabilities written is MergeStats.merged_count.
C30_SerializedOncePerFinding ==
    output # NoDoc =>
        /\ \A f \in Range(Returned(merged_ab)) :
            /\ Cardinality(PlacesOf(f)) = 1
            /\ \A place \in PlacesOf(f) :
                    output.Results[place[1]].Target = f.target
        /\ \A r, q \in DOMAIN output.Results :
                output.Results[r].Target = output.Results[q].Target => r = q
        /\ SerializedCount = output.MergeStats.merged_count
        /\ SerializedCount = Len(merged_ab.merged_vulns)

\* a document written for findings of two targets, one of them found by
\* both scanners
C30_Witness ==
    /\ output # NoDoc
    /\ Len(output.Results) = 2
    /\ output.MergeStats.merged_count = 2
    /\ \E r \in DOMAIN output.Results :
        \E i \in DOMAIN output.Results[r].Vulnerabilities :
            output.Results[r].Vulnerabilities[i].FoundBy = "trivy,grype"

=============================================================================
